---- MODULE Spec2Model ----
(***************************************************************************)
(* tenjint: the cooperative event runtime (event.py) with the SLP          *)
(* permission coordinator (plugins/slp.py), the single-step coordinator    *)
(* (plugins/singlestep.py, x86-64 flavour) and the stealth breakpoint      *)
(* engine (plugins/breakpoint.py).                                         *)
(*                                                                         *)
(* The Python objects are the variables: em is the EventManager, cb the    *)
(* fields of every EventCallback object, slp / ssp / bpp the three core    *)
(* plugins, hv what the hypervisor has been told through the trap ABI.     *)
(* Sequential Python code is written as state transformers S -> S over a   *)
(* record of all objects; S.err carries a raised exception, which skips    *)
(* the rest of the code exactly as the exception does.                     *)
(***************************************************************************)
EXTENDS Integers, Sequences, FiniteSets, TLC

\* ------------------------------------------------------------- bounds
NumCpus == 2
NumPages == 1
MaxStops == 2
MaxId == 2
MaxReq == 4
MaxCalls == 2
MaxInitCalls == 3
MaxLbr == 3
MaxTs == 3
NumDtbs == 2

\* ---------------------------------------------------- program constants
PAGE_SHIFT == 12
PAGE_SIZE == 4096
None == -1

Cpus == 0 .. (NumCpus - 1)
Gfns == 1 .. NumPages
\* two addresses of interest on every page
Gpas == {g * PAGE_SIZE + o : g \in Gfns, o \in {0, 16}}
Ids == 0 .. (MaxId - 1)
\* page-table bases of the guest's tasks
Dtbs == 1 .. NumDtbs

RECURSIVE Pow2(_)
Pow2(n) == IF n = 0 THEN 1 ELSE 2 * Pow2(n - 1)
\* gpa >> PAGE_SHIFT and gfn << PAGE_SHIFT
ShiftRight(a) == a \div Pow2(PAGE_SHIFT)
ShiftLeft(a) == a * Pow2(PAGE_SHIFT)

\* the guest's address space: kernel text mapped at a fixed offset
VaOffset == 256 * PAGE_SIZE
Gvas == {g + VaOffset : g \in Gpas}
vtop(gva) == gva - VaOffset

EmptyMap == [x \in {} |-> 0]
Put(f, k, v) == [x \in (DOMAIN f) \cup {k} |-> IF x = k THEN v ELSE f[x]]
Pop(f, k) == [x \in (DOMAIN f) \ {k} |-> f[x]]

\* ------------------------------------------------------------- events
KSLP == "SystemEventSLP"
KSS == "SystemEventSingleStep"
KBP == "SystemEventBreakpoint"
KShutdown == "SystemEventVmShutdown"
\* an event class of a user plugin, not registered with the event manager
KUser == "UserEvent"

Event(kind, c, gva, gpa, r, w, x, rwx, m) ==
    [kind |-> kind, cpu_num |-> c, gva |-> gva, gpa |-> gpa,
     r |-> r, w |-> w, x |-> x, rwx |-> rwx, method |-> m]
SystemEventSLP(c, gpa, r, w, x, rwx) ==
    Event(KSLP, c, gpa + VaOffset, gpa, r, w, x, rwx, "None")
SystemEventSingleStep(c, m) == Event(KSS, c, None, None, FALSE, FALSE, FALSE, FALSE, m)
SystemEventBreakpoint(c, gva, gpa) ==
    Event(KBP, c, gva, gpa, FALSE, FALSE, FALSE, FALSE, "None")
SystemEventVmShutdown ==
    Event(KShutdown, None, None, None, FALSE, FALSE, FALSE, FALSE, "None")
UserEvent(tag) == Event(KUser, None, tag, None, FALSE, FALSE, FALSE, FALSE, "None")
NoEvent == Event("None", None, None, None, FALSE, FALSE, FALSE, FALSE, "None")

\* -------------------------------------------------- EventCallback objects
Sub(k, n, p) == [k |-> k, n |-> n, p |-> p]
slp_cb == Sub("slp_cb", 0, None)
slp_ss_cb(c) == Sub("slp_ss_cb", 0, c)
ss_cb_ss == Sub("ss_cb_ss", 0, None)
bp_cb_bp == Sub("bp_cb_bp", 0, None)
bp_cb_ss == Sub("bp_cb_ss", 0, None)
bp_ss(c) == Sub("bp_ss", 0, c)
slp_rw_cb(id) == Sub("slp_rw_cb", id, None)
slp_x_cb(id) == Sub("slp_x_cb", id, None)
\* callbacks of user plugins: breakpoint subscribers (two per gpa) and
\* SLP violation subscribers (one per page, all three traps)
NumUserCopies == 2
user_bp(i, gpa) == Sub("user_bp", i, gpa)
user_slp(gfn) == Sub("user_slp", 0, gfn)
\* wildcard subscribers (no event name; p is the cpu_num they pass as a
\* parameter all the same) and single-step subscribers (cpu c, method m)
user_all(p) == Sub("user_all", 0, p)
user_ss(c, m) == Sub("user_ss", c, m)
Methods == {"MTF", "DEBUG"}
UserBpSubs == {user_bp(i, g) : i \in 1 .. NumUserCopies, g \in Gpas}
UserSlpSubs == {user_slp(g) : g \in Gfns}
UserAllSubs == {user_all(p) : p \in {None, 1}}
UserSsSubs == {user_ss(c, m) : c \in Cpus, m \in Methods \cup {"None"}}
UserSubs == UserBpSubs \cup UserSlpSubs \cup UserAllSubs \cup UserSsSubs
Subs == {slp_cb, ss_cb_ss, bp_cb_bp, bp_cb_ss}
        \cup {slp_ss_cb(c) : c \in Cpus} \cup {bp_ss(c) : c \in Cpus}
        \cup {slp_rw_cb(i) : i \in Ids} \cup {slp_x_cb(i) : i \in Ids}
        \cup UserSubs

VARIABLES em, svc, pm, cb, slp, ssp, bpp, tsp, vm, hv, obs, pc, cur, key, idx, err
vars == <<em, svc, pm, cb, slp, ssp, bpp, tsp, vm, hv, obs, pc, cur, key, idx, err>>

\* S: every object plus the exception in flight (err), the value returned by
\* the last call (ret) and over, set when a request-id counter would pass its cap
Raise(S, e) == [S EXCEPT !.err = e]
Ok(S) == S.err = "none"

\* ------------------------------------------------- service manager
\* an object: its class, its name attribute (plugins have one, "None"
\* otherwise) and which instance of the class it is
Obj(cls, name, id) == [cls |-> cls, name |-> name, id |-> id]
NoObj == Obj("None", "None", 0)

\* variant: register binding the name to the new object in any case
SM_register_rebind(S, obj, name0) ==
    LET name == IF name0 = "None" THEN obj.cls ELSE name0 IN
    [S EXCEPT !.svc.service_registry = Put(@, name, obj)]

\* ServiceManager.register
SM_register(S, obj, name0) ==
    LET name == IF name0 = "None" THEN obj.cls ELSE name0 IN
    IF name \in DOMAIN S.svc.service_registry
    THEN Raise(S, "ServiceRegisteredError")
    ELSE [S EXCEPT !.svc.service_registry = Put(@, name, obj)]

\* ServiceManager.unregister_by_name
SM_unregister_by_name(S, name) ==
    IF name \notin DOMAIN S.svc.service_registry THEN Raise(S, "KeyError")
    ELSE [S EXCEPT !.svc.service_registry = Pop(@, name),
                   !.ret = S.svc.service_registry[name]]

\* ServiceManager.unregister_by_object: pop(obj.name)
SM_unregister_by_object(S, obj) ==
    IF obj.name = "None" THEN Raise(S, "AttributeError")
    ELSE SM_unregister_by_name(S, obj.name)

\* ServiceManager.get
SM_get(S, name) ==
    IF name \notin DOMAIN S.svc.service_registry THEN Raise(S, "KeyError")
    ELSE [S EXCEPT !.ret = S.svc.service_registry[name]]

\* --------------------------------------------------- VM facade: LBR
\* obs.lbr, per CPU: the lbr_enable and lbr_disable calls that count for the
\* CPU, how often a disable call evened them out (returns), whether they
\* named the CPU, omitted the cpu argument, or both (args), and the
\* hypervisor calls that reached the CPU
NoLbrCalls == [enables |-> 0, disables |-> 0, returns |-> 0, args |-> "none",
               hv_enables |-> 0, hv_disables |-> 0]
ArgsAfter(args, cpu_num) ==
    LET a == IF cpu_num = None THEN "all" ELSE "cpu" IN
    IF args \in {"none", a} THEN a ELSE "mixed"
ObserveLbr(S, cpu_num, enable) ==
    [S EXCEPT !.obs.lbr =
        [c \in Cpus |->
            LET o == S.obs.lbr[c] IN
            IF cpu_num \notin {None, c} THEN o
            ELSE IF enable
            THEN [o EXCEPT !.enables = @ + 1, !.args = ArgsAfter(@, cpu_num)]
            ELSE [o EXCEPT !.disables = @ + 1, !.args = ArgsAfter(@, cpu_num),
                           !.returns = IF o.enables = o.disables + 1 THEN @ + 1 ELSE @]]]

\* ------------------------------------------------ hypervisor trap ABI
\* slp_update(gpa, r, w, x): the page's permissions as the hypervisor holds
\* them, and the updates it received since the VM was last resumed
tenjint_api_slp_update(S, gpa, r, w, x) ==
    [S EXCEPT !.hv.slp_perm[ShiftRight(gpa)] = <<r, w, x>>,
              !.hv.slp_sent[ShiftRight(gpa)] = Append(@, <<r, w, x>>)]

\* update_feature_slp(cpu, enable, global, gfn, num_pages, r, w, x): the
\* violation traps requested, counted per parameter tuple
tenjint_api_update_feature_slp(S, enable, params) ==
    LET n == IF params \in DOMAIN S.hv.slp_feat THEN S.hv.slp_feat[params] ELSE 0
    IN IF enable
       THEN [S EXCEPT !.hv.slp_feat = Put(@, params, n + 1)]
       ELSE IF n <= 1
            THEN [S EXCEPT !.hv.slp_feat = Pop(@, params)]
            ELSE [S EXCEPT !.hv.slp_feat = Put(@, params, n - 1)]

\* update_feature_debug(cpu_num=None, enable, gpa): debug breakpoint at gpa
tenjint_api_update_feature_debug_bp(S, enable, gpa) ==
    [S EXCEPT !.hv.debug_bp[gpa] = enable]

\* update_feature_mtf(cpu, enable) and
\* update_feature_debug(cpu, enable, single_step=True)
tenjint_api_update_feature_ss(S, cpu_num, enable, method) ==
    [S EXCEPT !.hv.ss[cpu_num] = IF enable THEN @ \cup {method} ELSE @ \ {method}]

\* update_feature_lbr(cpu_num, enable, flags): the LBR feature per CPU, on
\* all CPUs without cpu_num; obs.lbr counts the calls that reach each CPU
tenjint_api_update_feature_lbr(S, cpu_num, enable) ==
    [S EXCEPT !.hv.lbr = [c \in Cpus |-> IF cpu_num \in {None, c} THEN enable
                                         ELSE S.hv.lbr[c]],
              !.obs.lbr = [c \in Cpus |->
                              LET o == S.obs.lbr[c] IN
                              IF cpu_num \notin {None, c} THEN o
                              ELSE IF enable THEN [o EXCEPT !.hv_enables = @ + 1]
                              ELSE [o EXCEPT !.hv_disables = @ + 1]]]

\* update_feature_taskswitch(enable, dtb, incoming, outgoing): the last call
\* for every dtb; obs.ts_call is the call made in the step
tenjint_api_update_feature_taskswitch(S, enable, dtb, incoming, outgoing) ==
    [S EXCEPT !.hv.ts[dtb] = <<enable, incoming, outgoing>>,
              !.obs.ts_call = <<enable, dtb, incoming, outgoing>>]

\* ------------------------------------ VM facade (x86-64): the caches
\* get_cpu_state / lbr_get: the state of the CPU in the current stop
tenjint_api_get_cpu_state(S, cpu_num) ==
    [instruction_pointer |-> S.hv.ip[cpu_num], stop |-> S.hv.stops]
tenjint_api_lbr_get(S, cpu_num) == [stop |-> S.hv.stops]

\* VirtualMachineBase.cpu; obs.stale: the access returned state that was
\* read in an earlier stop
VM_cpu(S, cpu_num) ==
    IF cpu_num \in DOMAIN S.vm.cpus
    THEN [S EXCEPT !.ret = S.vm.cpus[cpu_num],
                   !.obs.stale = @ \/ S.vm.cpus[cpu_num].stop # S.hv.stops]
    ELSE LET rv == tenjint_api_get_cpu_state(S, cpu_num)
         IN [S EXCEPT !.vm.cpus = Put(@, cpu_num, rv), !.ret = rv]

\* VirtualMachineX86_64.lbr
VM_lbr(S, cpu_num) ==
    IF S.vm.lbr_enabled[cpu_num] = 0 THEN Raise(S, "RuntimeError")
    ELSE IF cpu_num \in DOMAIN S.vm.lbrs
    THEN [S EXCEPT !.ret = S.vm.lbrs[cpu_num],
                   !.obs.stale = @ \/ S.vm.lbrs[cpu_num].stop # S.hv.stops]
    ELSE LET rv == tenjint_api_lbr_get(S, cpu_num)
         IN [S EXCEPT !.vm.lbrs = Put(@, cpu_num, rv), !.ret = rv]

\* VirtualMachineX86_64._cont_hook
VM_cont_hook(S) == [S EXCEPT !.vm.cpus = EmptyMap, !.vm.lbrs = EmptyMap]

\* vm.cpu(cpu_num).instruction_pointer, after the access VM_cpu(S, cpu_num)
instruction_pointer(S, cpu_num) == S.ret.instruction_pointer

\* ------------------------------------------ VM facade (x86-64): LBR
\* VirtualMachineX86_64.lbr_enable
VM_lbr_enable(S, cpu_num) ==
    LET S1 == IF cpu_num = None
              THEN [S EXCEPT !.vm.lbr_enabled = [i \in Cpus |-> @[i] + 1]]
              ELSE [S EXCEPT !.vm.lbr_enabled[cpu_num] = @ + 1]
        enable == IF cpu_num = None
                  THEN \E i \in Cpus : S1.vm.lbr_enabled[i] = 1
                  ELSE S1.vm.lbr_enabled[cpu_num] = 1
        S2 == ObserveLbr(S1, cpu_num, TRUE)
    IN IF enable THEN tenjint_api_update_feature_lbr(S2, cpu_num, TRUE) ELSE S2

\* variant: lbr_disable telling the hypervisor at every call
VM_lbr_disable_always(S, cpu_num) ==
    LET S1 == IF cpu_num = None
              THEN [S EXCEPT !.vm.lbr_enabled = [i \in Cpus |-> @[i] - 1]]
              ELSE [S EXCEPT !.vm.lbr_enabled[cpu_num] = @ - 1]
    IN tenjint_api_update_feature_lbr(ObserveLbr(S1, cpu_num, FALSE), cpu_num, FALSE)

\* VirtualMachineX86_64.lbr_disable
VM_lbr_disable(S, cpu_num) ==
    LET S1 == IF cpu_num = None
              THEN [S EXCEPT !.vm.lbr_enabled = [i \in Cpus |-> @[i] - 1]]
              ELSE [S EXCEPT !.vm.lbr_enabled[cpu_num] = @ - 1]
        disable == IF cpu_num = None
                   THEN \E i \in Cpus : S1.vm.lbr_enabled[i] = 0
                   ELSE S1.vm.lbr_enabled[cpu_num] = 0
        S2 == ObserveLbr(S1, cpu_num, FALSE)
    IN IF disable THEN tenjint_api_update_feature_lbr(S2, cpu_num, FALSE) ELSE S2

\* ------------------------------------ task-switch coordinator (x86-64)
TsRequestParams(dtb, incoming, outgoing) ==
    [dtb |-> dtb, incoming |-> incoming, outgoing |-> outgoing]

\* for x in filter(same dtb, self._requests.values()): ... break when both
\* directions were seen; the dict is in the order of the ids
RECURSIVE TS_covered(_, _, _, _)
TS_covered(S, request, i, acc) ==
    IF i >= S.tsp.request_id_cntr THEN acc
    ELSE IF i \notin DOMAIN S.tsp.requests \/ S.tsp.requests[i].dtb # request.dtb
    THEN TS_covered(S, request, i + 1, acc)
    ELSE LET x == S.tsp.requests[i]
             a1 == [found |-> TRUE,
                    incoming |-> acc.incoming \/ x.incoming,
                    outgoing |-> acc.outgoing \/ x.outgoing]
         IN IF a1.incoming /\ a1.outgoing THEN a1
            ELSE TS_covered(S, request, i + 1, a1)

\* variant: _update_feature passing on the directions of the new request only
TS_update_feature_own(S, request, enable) ==
    LET a == TS_covered(S, request, 0,
                        [found |-> FALSE, incoming |-> FALSE, outgoing |-> FALSE])
    IN IF ~a.found /\ ~enable
       THEN tenjint_api_update_feature_taskswitch(S, FALSE, request.dtb,
                                                  a.incoming, a.outgoing)
       ELSE IF \/ ~a.found
               \/ request.incoming /\ ~a.incoming
               \/ request.outgoing /\ ~a.outgoing
       THEN tenjint_api_update_feature_taskswitch(S, TRUE, request.dtb,
                                                  request.incoming, request.outgoing)
       ELSE S

\* TaskSwitchPluginX86_64._update_feature
TS_update_feature(S, request, enable) ==
    LET a == TS_covered(S, request, 0,
                        [found |-> FALSE, incoming |-> FALSE, outgoing |-> FALSE])
    IN IF ~a.found /\ ~enable
       THEN tenjint_api_update_feature_taskswitch(S, FALSE, request.dtb,
                                                  a.incoming, a.outgoing)
       ELSE IF \/ ~a.found
               \/ request.incoming /\ ~a.incoming
               \/ request.outgoing /\ ~a.outgoing
       THEN LET incoming == IF enable /\ ~a.incoming THEN request.incoming
                            ELSE a.incoming
                outgoing == IF enable /\ ~a.outgoing THEN request.outgoing
                            ELSE a.outgoing
            IN tenjint_api_update_feature_taskswitch(S, TRUE, request.dtb,
                                                     incoming, outgoing)
       ELSE S

\* TaskSwitchPluginBase.request_event
TS_request_event(S, request) ==
    LET S1 == TS_update_feature([S EXCEPT !.obs.ts_req = request], request, TRUE)
        request_id == S1.tsp.request_id_cntr
    IN [S1 EXCEPT !.tsp.request_id_cntr = @ + 1,
                  !.tsp.requests = Put(@, request_id, request),
                  !.ret = request_id]

\* variant: cancel_event updating the feature before the request is removed
TS_cancel_event_late(S, request_id) ==
    IF request_id \notin DOMAIN S.tsp.requests THEN Raise(S, "KeyError")
    ELSE LET request == S.tsp.requests[request_id]
             S1 == TS_update_feature(S, request, FALSE)
         IN [S1 EXCEPT !.tsp.requests = Pop(@, request_id)]

\* TaskSwitchPluginBase.cancel_event
TS_cancel_event(S, request_id) ==
    IF request_id \notin DOMAIN S.tsp.requests THEN Raise(S, "KeyError")
    ELSE LET request == S.tsp.requests[request_id]
             S1 == [S EXCEPT !.tsp.requests = Pop(@, request_id)]
         IN TS_update_feature(S1, request, FALSE)

\* ------------------------------------ single-step coordinator (x86-64)
default_method == "MTF"

SS_feature_update(S, enable, method, cpu_num) ==
    IF method \in {"MTF", "DEBUG"}
    THEN tenjint_api_update_feature_ss(S, cpu_num, enable, method)
    ELSE Raise(S, "ValueError")

\* variant: request_event without the test for another method
SS_request_event_unchecked(S, cpu_num, method0) ==
    LET method == IF method0 = "None" THEN default_method ELSE method0 IN
    IF S.ssp.request_id_cntr >= MaxReq THEN [S EXCEPT !.over = TRUE]
    ELSE LET request_id == S.ssp.request_id_cntr
             S1 == [S EXCEPT !.ssp.request_id_cntr = @ + 1]
             S2 == SS_feature_update(S1, TRUE, method, cpu_num)
             S3 == VM_cpu(S2, cpu_num)
         IN IF ~Ok(S2) THEN S2
            ELSE [S3 EXCEPT !.ssp.ss[cpu_num] = method,
                            !.ssp.ss_inst_ptr[cpu_num] = instruction_pointer(S3, cpu_num),
                            !.ret = request_id]

SS_request_event(S, cpu_num, method0) ==
    LET method == IF method0 = "None" THEN default_method ELSE method0 IN
    IF S.ssp.ss[cpu_num] # "None" /\ S.ssp.ss[cpu_num] # method
    THEN Raise(S, "ValueError")
    ELSE IF S.ssp.request_id_cntr >= MaxReq THEN [S EXCEPT !.over = TRUE]
    ELSE LET request_id == S.ssp.request_id_cntr
             S1 == [S EXCEPT !.ssp.request_id_cntr = @ + 1]
             S2 == SS_feature_update(S1, TRUE, method, cpu_num)
             S3 == VM_cpu(S2, cpu_num)
         IN IF ~Ok(S2) THEN S2
            ELSE [S3 EXCEPT !.ssp.ss[cpu_num] = method,
                            !.ssp.ss_inst_ptr[cpu_num] = instruction_pointer(S3, cpu_num),
                            !.ret = request_id]

\* variant: cancel_event taking the step back at the hypervisor
SS_cancel_event_disarm(S, request_id) ==
    [S EXCEPT !.hv.ss = [c \in Cpus |-> {}]]

SS_cancel_event(S, request_id) ==
    S

\* the debug message reads vm.cpu(event.cpu_num).instruction_pointer
SS_cb_func_ss(S, event) ==
    LET S1 == SS_feature_update(S, FALSE, S.ssp.ss[event.cpu_num], event.cpu_num)
    IN IF Ok(S1) THEN VM_cpu(S1, event.cpu_num) ELSE S1

last_ss_gva(S, cpu_num) == S.ssp.ss_inst_ptr[cpu_num]

\* ------------------------------------------------------ SLP coordinator
SlpParams(cpu_num, global_req, gfn, num_pages, trap_r, trap_w, trap_x) ==
    [cpu_num |-> cpu_num, global_req |-> global_req, gfn |-> gfn,
     num_pages |-> num_pages, trap_r |-> trap_r, trap_w |-> trap_w,
     trap_x |-> trap_x]

SLP_request_event(S, params) ==
    IF S.slp.request_id_cntr >= MaxReq THEN [S EXCEPT !.over = TRUE]
    ELSE LET request_id == S.slp.request_id_cntr
             S1 == [S EXCEPT !.slp.request_id_cntr = @ + 1]
             S2 == tenjint_api_update_feature_slp(S1, TRUE, params)
         IN [S2 EXCEPT !.slp.requests = Put(@, request_id, params),
                       !.ret = request_id]

SLP_cancel_event(S, request_id) ==
    IF request_id \notin DOMAIN S.slp.requests THEN Raise(S, "KeyError")
    ELSE LET params == S.slp.requests[request_id]
             S1 == [S EXCEPT !.slp.requests = Pop(@, request_id)]
         IN tenjint_api_update_feature_slp(S1, FALSE, params)

slp_mutex_violation(prev_perms, req_perms) ==
    LET merge == <<req_perms[1] \/ prev_perms[1],
                   req_perms[2] \/ prev_perms[2],
                   req_perms[3] \/ prev_perms[3]>>
    IN merge[2] /\ merge[3]

\* what a call of update_permissions did, and the calls for the page since
\* the VM was last resumed: whether there was one (tried) and the OR of the
\* flags of all (every); of those that returned, how many (one, or two and
\* more), the flags of the first and the OR of the flags of all
ObserveCall(S0, S1, gpa, r, w, x) ==
    LET gfn == ShiftRight(gpa)
        had == gfn \in DOMAIN S0.slp.perm_requests
        prev == IF had THEN S0.slp.perm_requests[gfn] ELSE <<FALSE, FALSE, FALSE, FALSE>>
    IN [S1 EXCEPT
          !.obs.up_last = [called |-> TRUE, gfn |-> gfn,
                           wx |-> (w \/ prev[2]) /\ (x \/ prev[3]),
                           raised |-> ~Ok(S1),
                           changed |-> S1.slp.perm_requests # S0.slp.perm_requests,
                           sent |-> S1.hv.slp_sent # S0.hv.slp_sent],
          !.obs.up_ok[gfn] =
              LET every == <<r \/ @.every[1], w \/ @.every[2], x \/ @.every[3]>> IN
              IF ~Ok(S1) THEN [@ EXCEPT !.tried = TRUE, !.every = every]
              ELSE IF @.n = 0
              THEN [n |-> 1, first |-> <<r, w, x>>, all |-> <<r, w, x>>,
                    tried |-> TRUE, every |-> every]
              ELSE [n |-> 2, first |-> @.first,
                    all |-> <<r \/ @.all[1], w \/ @.all[2], x \/ @.all[3]>>,
                    tried |-> TRUE, every |-> every]]

\* variant: update_permissions keeping a merged request committed
update_permissions_committed(S, gpa, r, w, x) ==
    LET gfn == ShiftRight(gpa)
        req_perms == <<r, w, x, TRUE>>
    IN IF gfn \in DOMAIN S.slp.perm_requests
       THEN LET prev_perms == S.slp.perm_requests[gfn] IN
            IF slp_mutex_violation(prev_perms, req_perms)
            THEN Raise(S, "SLPPermUpdateViolation")
            ELSE [S EXCEPT !.slp.perm_requests[gfn] =
                               <<req_perms[1] \/ prev_perms[1],
                                 req_perms[2] \/ prev_perms[2],
                                 req_perms[3] \/ prev_perms[3],
                                 TRUE>>]
       ELSE LET S1 == tenjint_api_slp_update(S, gpa, req_perms[1], req_perms[2],
                                             req_perms[3])
            IN [S1 EXCEPT !.slp.perm_requests = Put(@, gfn, req_perms)]

update_permissions(S, gpa, r, w, x) ==
    LET gfn == ShiftRight(gpa)
        req_perms == <<r, w, x, TRUE>>
    IN IF gfn \in DOMAIN S.slp.perm_requests
       THEN LET prev_perms == S.slp.perm_requests[gfn] IN
            IF slp_mutex_violation(prev_perms, req_perms)
            THEN Raise(S, "SLPPermUpdateViolation")
            ELSE [S EXCEPT !.slp.perm_requests[gfn] =
                               <<req_perms[1] \/ prev_perms[1],
                                 req_perms[2] \/ prev_perms[2],
                                 req_perms[3] \/ prev_perms[3],
                                 FALSE>>]
       ELSE LET S1 == tenjint_api_slp_update(S, gpa, req_perms[1], req_perms[2],
                                             req_perms[3])
            IN [S1 EXCEPT !.slp.perm_requests = Put(@, gfn, req_perms)]

SLP_update_permissions(S, gpa, r, w, x) ==
    ObserveCall(S, update_permissions(S, gpa, r, w, x), gpa, r, w, x)

SLP_slp_cb_func(S, event) == [S EXCEPT !.slp.slp_events = Append(@, event)]

\* --------------------------------------------------------- event manager
\* EventCallback.event_name / event_key
event_key(sub) ==
    CASE sub.k \in {"slp_cb", "slp_rw_cb", "slp_x_cb", "user_slp"} -> KSLP
      [] sub.k \in {"slp_ss_cb", "ss_cb_ss", "bp_cb_ss", "bp_ss", "user_ss"} -> KSS
      [] sub.k \in {"bp_cb_bp", "user_bp"} -> KBP
      [] sub.k = "user_all" -> "*"

\* EventCallback.event_cls: None without an event name
event_cls(sub) == IF event_key(sub) = "*" THEN "None" ELSE event_key(sub)

\* EventCallback.event_params, with the defaults of the event class filled in
EventParams(cpu_num, method, gpa, slpp) ==
    [cpu_num |-> cpu_num, method |-> method, gpa |-> gpa, slp |-> slpp]
NoSlpParams == SlpParams(None, FALSE, None, None, FALSE, FALSE, FALSE)
event_params(S, sub) ==
    CASE sub.k = "slp_cb" ->
           EventParams(None, "None", None, SlpParams(None, TRUE, None, None, TRUE, TRUE, TRUE))
      [] sub.k = "slp_rw_cb" ->
           EventParams(None, "None", None,
                       SlpParams(None, FALSE, ShiftRight(S.bpp.obj[sub.n].gpa), 1,
                                 TRUE, TRUE, FALSE))
      [] sub.k = "slp_x_cb" ->
           EventParams(None, "None", None,
                       SlpParams(None, FALSE, ShiftRight(S.bpp.obj[sub.n].gpa), 1,
                                 FALSE, FALSE, TRUE))
      [] sub.k = "user_slp" ->
           EventParams(None, "None", None, SlpParams(None, FALSE, sub.p, 1, TRUE, TRUE, TRUE))
      [] sub.k \in {"slp_ss_cb", "bp_ss"} -> EventParams(sub.p, "None", None, NoSlpParams)
      [] sub.k \in {"ss_cb_ss", "bp_cb_ss", "bp_cb_bp"} ->
           EventParams(None, "None", None, NoSlpParams)
      [] sub.k = "user_bp" -> EventParams(None, "None", sub.p, NoSlpParams)
      [] sub.k = "user_all" -> EventParams(sub.p, "None", None, NoSlpParams)
      [] sub.k = "user_ss" -> EventParams(sub.n, sub.p, None, NoSlpParams)

\* EventManager._event_plugins: the event classes and their producers
producer(kind) ==
    CASE kind = KSLP -> "SLPPlugin"
      [] kind = KSS -> "SingleStepPlugin"
      [] kind = KBP -> "BreakpointPlugin"
      [] OTHER -> "None"

\* ------------------------------------ event manager: the producers
\* an event-producing plugin: its name and the event classes it lists
EventPlugin(name, produces) == [name |-> name, produces |-> produces]
KTS == "SystemEventTaskSwitch"
TaskSwitchPlugin == EventPlugin("TaskSwitchPlugin", <<KTS>>)
SLPPlugin == EventPlugin("SLPPlugin", <<KSLP>>)
SingleStepPlugin == EventPlugin("SingleStepPlugin", <<KSS>>)
BreakpointPlugin == EventPlugin("BreakpointPlugin", <<KBP>>)
\* Plugin.__init__: self._service_manager.register(self, self.name)
Plugin_init(S, plugin) ==
    SM_register(S, Obj(plugin.name, plugin.name, 1), plugin.name)
\* the VM facade the core plugins find under its name
VirtualMachine == Obj("VirtualMachineX86_64", "VirtualMachine", 1)
\* the table EventManager.__init__ sets up: three events without producer
BuiltinEvents ==
    [k \in {KShutdown, "SystemEventVmReady", "SystemEventVmStop"} |-> "None"]

\* variant: register binding every listed event class, bound or not
RECURSIVE register_from_unchecked(_, _, _)
register_from_unchecked(S, plugin, i) ==
    IF i > Len(plugin.produces) THEN S
    ELSE register_from_unchecked(
             [S EXCEPT !.em.event_plugins = Put(@, plugin.produces[i], plugin.name)],
             plugin, i + 1)
EM_register_unchecked(S, plugin) ==
    register_from_unchecked(S, plugin, 1)

\* EventManager.register: for event_cls in plugin.produces: ...
RECURSIVE register_from(_, _, _)
register_from(S, plugin, i) ==
    IF i > Len(plugin.produces) THEN S
    ELSE LET event_name == plugin.produces[i] IN
         IF event_name \in DOMAIN S.em.event_plugins
         THEN Raise(S, "EventPluginExists")
         ELSE register_from(
                  [S EXCEPT !.em.event_plugins = Put(@, event_name, plugin.name)],
                  plugin, i + 1)
EM_register(S, plugin) ==
    register_from(S, plugin, 1)

\* EventManager.unregister: for event_cls in plugin.produces: pop
RECURSIVE unregister_from(_, _, _)
unregister_from(S, plugin, i) ==
    IF i > Len(plugin.produces) THEN S
    ELSE LET event_name == plugin.produces[i] IN
         IF event_name \notin DOMAIN S.em.event_plugins THEN Raise(S, "KeyError")
         ELSE unregister_from([S EXCEPT !.em.event_plugins = Pop(@, event_name)],
                              plugin, i + 1)
EM_unregister(S, plugin) ==
    unregister_from(S, plugin, 1)

\* Plugin.uninit: self._service_manager.unregister_by_object(self)
Plugin_uninit(S, plugin) ==
    SM_unregister_by_object(S, Obj(plugin.name, plugin.name, 1))
\* EventPlugin.__init__: super().__init__(), then register as producer
EventPlugin_init(S, plugin) ==
    LET S1 == Plugin_init(S, plugin) IN
    IF Ok(S1) THEN EM_register(S1, plugin) ELSE S1
\* EventPlugin.uninit: super().uninit(), then unregister as producer
EventPlugin_uninit(S, plugin) ==
    LET S1 == Plugin_uninit(S, plugin) IN
    IF Ok(S1) THEN EM_unregister(S1, plugin) ELSE S1
\* PluginManager.unload_plugin
PM_unload_plugin(S, plugin) ==
    IF plugin.name \notin DOMAIN S.pm.loaded_plugins THEN Raise(S, "KeyError")
    ELSE EventPlugin_uninit([S EXCEPT !.pm.loaded_plugins = Pop(@, plugin.name)],
                            plugin)
\* PluginManager.load_plugin, of a loadable plugin class
PM_load_plugin(S, cls, reload) ==
    LET name == cls.name
        S1 == IF reload /\ name \in DOMAIN S.pm.loaded_plugins
              THEN PM_unload_plugin(S, S.pm.loaded_plugins[name])
              ELSE S
        S2 == IF Ok(S1) THEN EventPlugin_init(S1, cls) ELSE S1
    IN IF Ok(S2) THEN [S2 EXCEPT !.pm.loaded_plugins = Put(@, name, cls)] ELSE S2
\* the plugins the plugin manager loads at start, and what each produces
CorePlugins ==
    {"VirtualMachine", "TaskSwitchPlugin", "SLPPlugin", "SingleStepPlugin",
     "BreakpointPlugin"}
Produces(p) ==
    CASE p = "TaskSwitchPlugin" -> <<KTS>>
      [] p = "SLPPlugin" -> <<KSLP>>
      [] p = "SingleStepPlugin" -> <<KSS>>
      [] p = "BreakpointPlugin" -> <<KBP>>
      [] OTHER -> <<>>

\* variant: the breakpoint filter accepting every breakpoint event
SystemEventBreakpoint_filter_any(cb_params, event) ==
    event.kind = KBP

SystemEventBreakpoint_filter(cb_params, event) ==
    IF event.kind # KBP THEN FALSE
    ELSE IF cb_params.gpa = None THEN TRUE
    ELSE cb_params.gpa = event.gpa

SystemEventSingleStep_filter(cb_params, event) ==
    IF event.kind # KSS THEN FALSE
    ELSE IF cb_params.cpu_num # None /\ cb_params.cpu_num # event.cpu_num THEN FALSE
    ELSE IF cb_params.method # "None" /\ cb_params.method # event.method THEN FALSE
    ELSE TRUE

TrapMatch(p, event) ==
    IF event.r /\ p.trap_r THEN TRUE
    ELSE IF event.w /\ p.trap_w THEN TRUE
    ELSE event.x /\ p.trap_x

SystemEventSLP_filter(cb_params, event) ==
    LET p == cb_params.slp IN
    IF event.kind # KSLP THEN FALSE
    ELSE IF p.global_req THEN TrapMatch(p, event)
    ELSE IF p.gfn # None /\ p.num_pages # None /\ p.num_pages > 0
         THEN LET min_range == ShiftLeft(p.gfn)
                  max_range == ShiftLeft(p.gfn + (p.num_pages - 1)) + (PAGE_SIZE - 1)
              IN IF event.gpa >= min_range /\ event.gpa <= max_range
                 THEN TrapMatch(p, event)
                 ELSE FALSE
         ELSE FALSE

event_filter(S, sub, event) ==
    CASE event_key(sub) = KSLP -> SystemEventSLP_filter(event_params(S, sub), event)
      [] event_key(sub) = KSS -> SystemEventSingleStep_filter(event_params(S, sub), event)
      [] event_key(sub) = KBP -> SystemEventBreakpoint_filter(event_params(S, sub), event)

\* list.remove: the first occurrence
RECURSIVE IndexOf(_, _, _)
IndexOf(seq, x, i) ==
    IF i > Len(seq) THEN 0 ELSE IF seq[i] = x THEN i ELSE IndexOf(seq, x, i + 1)
RemoveAt(seq, i) == SubSeq(seq, 1, i - 1) \o SubSeq(seq, i + 1, Len(seq))

\* variant: put_event placing the event at the front of the queue
put_event_front(S, event) ==
    [S EXCEPT !.em.event_queue = <<event>> \o @, !.obs.puts = Append(@, event)]

\* variant: put_event dropping the event when others are queued
put_event_if_empty(S, event) ==
    [S EXCEPT !.em.event_queue = IF @ = <<>> THEN <<event>> ELSE @,
              !.obs.puts = Append(@, event)]

\* obs.puts: the events put since the VM was last resumed, in the order of
\* the calls
put_event(S, event) ==
    [S EXCEPT !.em.event_queue = Append(@, event), !.obs.puts = Append(@, event)]

\* event = get_event(); while event is not None: self.put_event(event) ...
RECURSIVE put_events(_, _, _)
put_events(S, es, i) ==
    IF i > Len(es) THEN S ELSE put_events(put_event(S, es[i]), es, i + 1)

\* ------------------------------------- event manager: request and cancel
\* what the producers were asked, for the properties about forwarding: the
\* ids they returned and to which subscription, the ids they were asked to
\* cancel, and the subscriptions requested while they were active
ObserveRequest(S, sub) ==
    IF Ok(S) /\ ~S.over
    THEN [S EXCEPT !.obs.requested = @ \cup {<<sub, S.ret>>}]
    ELSE S
ObserveActive(S, sub) ==
    IF S.cb[sub].active THEN [S EXCEPT !.obs.rereq = @ \cup {sub}] ELSE S
\* the registrations in force, per key, in the order of the request_event
\* calls that made them; cancel_event ends the oldest one of the callback
Reg(o, k) == IF k \in DOMAIN o.reg THEN o.reg[k] ELSE <<>>
ObserveRegistered(S, sub) ==
    [S EXCEPT !.obs.reg = IF event_key(sub) \in DOMAIN @
                          THEN [@ EXCEPT ![event_key(sub)] = Append(@, sub)]
                          ELSE Put(@, event_key(sub), <<sub>>)]
ObserveUnregistered(S, sub) ==
    LET k == event_key(sub)
        j == IndexOf(Reg(S.obs, k), sub, 1)
    IN IF j = 0 THEN S
       ELSE [S EXCEPT !.obs.reg[k] = RemoveAt(@, j),
                      !.obs.last = IF @[1] = k /\ j <= @[2] THEN <<k, @[2] - 1>> ELSE @]
\* the callback of sub is invoked: the registration this is, the first of
\* sub after the one invoked before it in this dispatch; out of order when
\* there is none, or when a wildcard follows a kind-specific one
ObserveInvoked(S, sub) ==
    LET k == event_key(sub)
        from == IF S.obs.last[1] = k THEN S.obs.last[2] ELSE 0
        j == IndexOf(Reg(S.obs, k), sub, from + 1)
    IN [S EXCEPT !.obs.last = <<k, j>>,
                 !.obs.disorder = j = 0 \/ (k = "*" /\ S.obs.last[1] \notin {"", "*"})]
ObserveCancel(S, sub, request_id) ==
    [S EXCEPT !.obs.canceled = @ \cup {<<event_key(sub), request_id>>},
              !.obs.twice = @ \/ (<<event_key(sub), request_id>> \in S.obs.canceled)]

\* EventManager.request_event and cancel_event call the producer in the
\* middle: the parts before and after that call
\* request_event: callback.request_id = <the id the producer returned>
request_event_store(R, callback) ==
    LET R1 == ObserveRequest(R, callback)
    IN IF Ok(R1) THEN [R1 EXCEPT !.cb[callback].request_id = R1.ret] ELSE R1
\* variant: request_event putting the callback at the front of its bucket
request_event_prepend(S1, callback) ==
    IF ~Ok(S1) THEN S1
    ELSE [ObserveRegistered(S1, callback) EXCEPT
            !.em.event_callbacks =
                IF event_key(callback) \in DOMAIN @
                THEN [@ EXCEPT ![event_key(callback)] = <<callback>> \o @]
                ELSE Put(@, event_key(callback), <<callback>>),
            !.cb[callback].active = TRUE]
\* request_event: append to the bucket, mark active
request_event_append(S1, callback) ==
    IF ~Ok(S1) THEN S1
    ELSE [ObserveRegistered(S1, callback) EXCEPT
            !.em.event_callbacks =
                IF event_key(callback) \in DOMAIN @
                THEN [@ EXCEPT ![event_key(callback)] = Append(@, callback)]
                ELSE Put(@, event_key(callback), <<callback>>),
            !.cb[callback].active = TRUE]
\* variant: cancel_event leaving the callback in its bucket
cancel_event_remove_none(S, callback) ==
    IF event_key(callback) \notin DOMAIN S.em.event_callbacks THEN Raise(S, "KeyError")
    ELSE IF IndexOf(S.em.event_callbacks[event_key(callback)], callback, 1) = 0
    THEN Raise(S, "ValueError")
    ELSE S
\* variant: cancel_event passing over a callback that is in no bucket
cancel_event_discard(S, callback) ==
    IF event_key(callback) \notin DOMAIN S.em.event_callbacks THEN S
    ELSE LET i == IndexOf(S.em.event_callbacks[event_key(callback)], callback, 1) IN
         IF i = 0 THEN S
         ELSE [ObserveUnregistered(S, callback) EXCEPT
                  !.em.event_callbacks[event_key(callback)] = RemoveAt(@, i)]
\* cancel_event: self._event_callbacks[callback.event_key].remove(callback)
cancel_event_remove(S, callback) ==
    IF event_key(callback) \notin DOMAIN S.em.event_callbacks THEN Raise(S, "KeyError")
    ELSE LET i == IndexOf(S.em.event_callbacks[event_key(callback)], callback, 1) IN
         IF i = 0 THEN Raise(S, "ValueError")
         ELSE [ObserveUnregistered(S, callback) EXCEPT
                  !.em.event_callbacks[event_key(callback)] = RemoveAt(@, i)]
\* variant: cancel_event leaving the producer's id in the subscription
cancel_event_clear_active(S2, callback) ==
    IF ~Ok(S2) THEN S2
    ELSE [S2 EXCEPT !.cb[callback].active = FALSE]
\* cancel_event: callback.request_id = None, callback.active = False
cancel_event_clear(S2, callback) ==
    IF ~Ok(S2) THEN S2
    ELSE [S2 EXCEPT !.cb[callback].request_id = None,
                    !.cb[callback].active = FALSE]

\* the requests the core plugins make themselves go to the SLP and single-step
\* coordinators only
core_request_event(S, sub) ==
    LET prm == event_params(S, sub) IN
    CASE producer(event_key(sub)) = "SLPPlugin" -> SLP_request_event(S, prm.slp)
      [] producer(event_key(sub)) = "SingleStepPlugin" ->
           SS_request_event(S, prm.cpu_num, prm.method)
core_cancel_event(S, sub, request_id) ==
    CASE producer(event_key(sub)) = "SLPPlugin" -> SLP_cancel_event(S, request_id)
      [] producer(event_key(sub)) = "SingleStepPlugin" -> SS_cancel_event(S, request_id)

\* EventManager.request_event, as the core plugins call it
EM_request_event(S, callback, send_request) ==
    IF ~Ok(S) THEN S
    ELSE LET S1 == IF send_request /\ producer(event_key(callback)) # "None"
                   THEN request_event_store(
                            core_request_event(ObserveActive(S, callback), callback),
                            callback)
                   ELSE S
         IN request_event_append(S1, callback)

\* EventManager.cancel_event, as the core plugins call it
EM_cancel_event(S, callback) ==
    IF ~Ok(S) THEN S
    ELSE LET S1 == cancel_event_remove(S, callback)
             request_id == S.cb[callback].request_id
             S2 == IF Ok(S1) /\ request_id # None
                   THEN core_cancel_event(ObserveCancel(S1, callback, request_id),
                                          callback, request_id)
                   ELSE S1
         IN cancel_event_clear(S2, callback)

\* ------------------------------------------------------ breakpoint engine
Breakpoint_set_bp_(S, id) ==
    IF ~Ok(S) THEN S
    ELSE [tenjint_api_update_feature_debug_bp(S, TRUE, S.bpp.obj[id].gpa)
            EXCEPT !.bpp.obj[id].is_set = TRUE]

Breakpoint_unset_bp_(S, id) ==
    IF ~Ok(S) THEN S
    ELSE [tenjint_api_update_feature_debug_bp(S, FALSE, S.bpp.obj[id].gpa)
            EXCEPT !.bpp.obj[id].is_set = FALSE]

Breakpoint_set_bp(S, id) ==
    LET S1 == SLP_update_permissions(S, S.bpp.obj[id].gpa, FALSE, FALSE, TRUE)
        \* except api.UpdateSLPError: log a warning
        S2 == IF S1.err = "UpdateSLPError" THEN [S1 EXCEPT !.err = "none"] ELSE S1
        S3 == EM_request_event(S2, slp_rw_cb(id), TRUE)
    IN Breakpoint_set_bp_(S3, id)

\* variant: unset_bp cancelling the RW subscription whatever is_set says
Breakpoint_unset_bp_armed(S, id) ==
    EM_cancel_event(Breakpoint_unset_bp_(S, id), slp_rw_cb(id))

Breakpoint_unset_bp(S, id) ==
    IF S.bpp.obj[id].is_set
    THEN EM_cancel_event(Breakpoint_unset_bp_(S, id), slp_rw_cb(id))
    ELSE EM_cancel_event(S, slp_x_cb(id))

Breakpoint_slp_rw_cb_func(S, id) ==
    LET S1 == Breakpoint_unset_bp_(S, id)
        S2 == SLP_update_permissions(S1, S.bpp.obj[id].gpa, TRUE, TRUE, FALSE)
        S3 == EM_cancel_event(S2, slp_rw_cb(id))
    IN EM_request_event(S3, slp_x_cb(id), TRUE)

Breakpoint_slp_x_cb_func(S, id) ==
    LET S1 == EM_cancel_event(S, slp_x_cb(id))
        S2 == EM_request_event(S1, slp_rw_cb(id), TRUE)
        S3 == SLP_update_permissions(S2, S.bpp.obj[id].gpa, FALSE, FALSE, TRUE)
    IN Breakpoint_set_bp_(S3, id)

BP_request_event(S, gpa) ==
    IF S.bpp.request_id_cntr >= MaxId THEN [S EXCEPT !.over = TRUE]
    ELSE LET request_id == S.bpp.request_id_cntr
             S1 == [S EXCEPT !.bpp.request_id_cntr = @ + 1,
                             !.bpp.obj = Put(@, request_id, [gpa |-> gpa, is_set |-> FALSE]),
                             !.bpp.requests = Append(@, request_id)]
             S2 == Breakpoint_set_bp(S1, request_id)
         IN IF Ok(S2) THEN [S2 EXCEPT !.ret = request_id] ELSE S2

BP_cancel_event(S, request_id) ==
    LET i == IndexOf(S.bpp.requests, request_id, 1) IN
    IF i = 0 THEN Raise(S, "KeyError")
    ELSE Breakpoint_unset_bp([S EXCEPT !.bpp.requests = RemoveAt(@, i)], request_id)

BP_cb_func_bp(S, event) ==
    IF S.cb[bp_ss(event.cpu_num)].active THEN S
    ELSE EM_request_event(S, bp_ss(event.cpu_num), TRUE)

\* for _, bp in self._requests.items(): if bp.gpa == last_gpa: put_event(...)
RECURSIVE PutMatching(_, _, _, _, _)
PutMatching(S, i, cpu_num, last_gva, last_gpa) ==
    IF i > Len(S.bpp.requests) THEN S
    ELSE LET S1 == IF S.bpp.obj[S.bpp.requests[i]].gpa = last_gpa
                   THEN put_event(S, SystemEventBreakpoint(cpu_num, last_gva, last_gpa))
                   ELSE S
         IN PutMatching(S1, i + 1, cpu_num, last_gva, last_gpa)

BP_cb_func_ss(S, event) ==
    IF S.cb[bp_ss(event.cpu_num)].active
    THEN EM_cancel_event(S, bp_ss(event.cpu_num))
    ELSE LET last_gva == last_ss_gva(S, event.cpu_num) IN
         IF last_gva = None THEN Raise(S, "TypeError")
         \* vm.vtop(last_gva, cpu_num=...) takes the dtb from vm.cpu(cpu_num)
         ELSE PutMatching(VM_cpu(S, event.cpu_num), 1, event.cpu_num, last_gva,
                          vtop(last_gva))

\* --------------------------------- SLP coordinator: the RWX resolution path
SLP_enable_single_step(S, cpu_num) == EM_request_event(S, slp_ss_cb(cpu_num), TRUE)
SLP_disable_single_step(S, cpu_num) == EM_cancel_event(S, slp_ss_cb(cpu_num))

\* (gfn, (r, w, x)) = self._rwx_perm_request[event.cpu_num]
SLP_ss_cb_func(S, event) ==
    LET slot == S.slp.rwx_perm_request[event.cpu_num] IN
    IF slot = <<>> THEN Raise(S, "TypeError")
    ELSE IF Len(slot[2]) # 3 THEN Raise(S, "ValueError")
    ELSE LET gfn == slot[1]
             S1 == SLP_update_permissions(S, ShiftLeft(gfn), slot[2][1], slot[2][2],
                                          slot[2][3])
             S2 == IF Ok(S1) THEN [S1 EXCEPT !.slp.rwx_perm_request[event.cpu_num] = <<>>]
                   ELSE S1
         IN SLP_disable_single_step(S2, event.cpu_num)

\* variant: _merge_event_perms taking the slot of a CPU that has one pending
SLP_merge_one_overwrite(S, event) ==
    LET gfn == ShiftRight(event.gpa) IN
    IF event.rwx
    THEN LET pre == IF gfn \in DOMAIN S.slp.perm_requests
                    THEN S.slp.perm_requests[gfn]
                    ELSE <<TRUE, TRUE, FALSE>>
             S1 == [S EXCEPT !.slp.rwx_perm_request[event.cpu_num] = <<gfn, pre>>,
                             !.slp.perm_requests = Put(@, gfn, <<TRUE, TRUE, TRUE, FALSE>>),
                             !.obs.rwx_done = @ \cup {gfn}]
         IN SLP_enable_single_step(S1, event.cpu_num)
    ELSE IF gfn \notin DOMAIN S.slp.perm_requests
         THEN IF event.r \/ event.w
              THEN [S EXCEPT !.slp.perm_requests = Put(@, gfn, <<TRUE, TRUE, FALSE, FALSE>>)]
              ELSE [S EXCEPT !.slp.perm_requests = Put(@, gfn, <<TRUE, FALSE, TRUE, FALSE>>)]
         ELSE S

SLP_merge_one(S, event) ==
    LET gfn == ShiftRight(event.gpa) IN
    IF event.rwx
    THEN IF S.slp.rwx_perm_request[event.cpu_num] # <<>>
         THEN Raise(S, "RuntimeError")
         ELSE LET pre == IF gfn \in DOMAIN S.slp.perm_requests
                         THEN S.slp.perm_requests[gfn]
                         ELSE <<TRUE, TRUE, FALSE>>
                  S1 == [S EXCEPT !.slp.rwx_perm_request[event.cpu_num] = <<gfn, pre>>,
                                  !.slp.perm_requests = Put(@, gfn, <<TRUE, TRUE, TRUE, FALSE>>),
                                  !.obs.rwx_done = @ \cup {gfn}]
              IN SLP_enable_single_step(S1, event.cpu_num)
    ELSE IF gfn \notin DOMAIN S.slp.perm_requests
         THEN IF event.r \/ event.w
              THEN [S EXCEPT !.slp.perm_requests = Put(@, gfn, <<TRUE, TRUE, FALSE, FALSE>>)]
              ELSE [S EXCEPT !.slp.perm_requests = Put(@, gfn, <<TRUE, FALSE, TRUE, FALSE>>)]
         ELSE S

RECURSIVE SLP_merge_event_perms(_, _)
SLP_merge_event_perms(S, i) ==
    IF ~Ok(S) \/ i > Len(S.slp.slp_events) THEN S
    ELSE SLP_merge_event_perms(SLP_merge_one(S, S.slp.slp_events[i]), i + 1)

\* for gfn, perms in self._perm_requests.items(): if not perms[3]: slp_update
RECURSIVE SLP_flush(_, _)
SLP_flush(S, todo) ==
    IF todo = {} THEN S
    ELSE LET gfn == CHOOSE g \in todo : TRUE
             perms == S.slp.perm_requests[gfn]
             S1 == IF ~perms[4]
                   THEN tenjint_api_slp_update(S, ShiftLeft(gfn), perms[1], perms[2], perms[3])
                   ELSE S
         IN SLP_flush(S1, todo \ {gfn})

\* variant: the continue hook without self._perm_requests.clear()
SLP_cont_hook_keep(S) ==
    LET S1 == SLP_merge_event_perms(S, 1) IN
    IF ~Ok(S1) THEN S1
    ELSE [SLP_flush(S1, DOMAIN S1.slp.perm_requests) EXCEPT !.slp.slp_events = <<>>]

SLP_cont_hook(S) ==
    LET S1 == SLP_merge_event_perms(S, 1) IN
    IF ~Ok(S1) THEN S1
    ELSE [SLP_flush(S1, DOMAIN S1.slp.perm_requests)
            EXCEPT !.slp.slp_events = <<>>, !.slp.perm_requests = EmptyMap]

\* ------------------------------- event manager, as user plugins call it
producer_request_event(S, sub) ==
    LET prm == event_params(S, sub) IN
    CASE producer(event_key(sub)) = "SLPPlugin" -> SLP_request_event(S, prm.slp)
      [] producer(event_key(sub)) = "SingleStepPlugin" ->
           SS_request_event(S, prm.cpu_num, prm.method)
      [] producer(event_key(sub)) = "BreakpointPlugin" -> BP_request_event(S, prm.gpa)
producer_cancel_event(S, sub, request_id) ==
    CASE producer(event_key(sub)) = "SLPPlugin" -> SLP_cancel_event(S, request_id)
      [] producer(event_key(sub)) = "SingleStepPlugin" -> SS_cancel_event(S, request_id)
      [] producer(event_key(sub)) = "BreakpointPlugin" -> BP_cancel_event(S, request_id)
\* EventManager.request_event with send_request left at its default
User_request_event(S, callback) ==
    IF ~Ok(S) THEN S
    ELSE LET S1 == IF producer(event_key(callback)) # "None"
                   THEN request_event_store(
                            producer_request_event(ObserveActive(S, callback), callback),
                            callback)
                   ELSE ObserveActive(S, callback)
         IN request_event_append(S1, callback)

\* variant: cancel_event that does not forward the cancellation
User_cancel_event_unforwarded(S, callback) ==
    IF ~Ok(S) THEN S
    ELSE cancel_event_clear(cancel_event_remove(S, callback), callback)

\* EventManager.cancel_event
User_cancel_event(S, callback) ==
    IF ~Ok(S) THEN S
    ELSE LET S1 == cancel_event_remove(S, callback)
             request_id == S.cb[callback].request_id
             S2 == IF Ok(S1) /\ request_id # None
                   THEN producer_cancel_event(ObserveCancel(S1, callback, request_id),
                                              callback, request_id)
                   ELSE S1
         IN cancel_event_clear(S2, callback)

\* ------------------------------------------------------- user plugins
\* A user plugin acts in its constructor (before the run loop starts) and in
\* its callbacks; it makes at most one API call at a time and handles the
\* exception the call raises.
Choice(op, sub, gpa, r, w, x) == [op |-> op, sub |-> sub, gpa |-> gpa, r |-> r, w |-> w, x |-> x]
NoChoice == Choice("none", slp_cb, None, FALSE, FALSE, FALSE)
Caught(R) == [R EXCEPT !.err = "none", !.obs.user_err = R.err]
UserCall(S0, ch) ==
    LET S == [S0 EXCEPT !.obs.ncalls = @ + 1, !.obs.api = <<ch.op, ch.sub>>] IN
    CASE ch.op = "none" -> S0
      [] ch.op = "update_permissions" ->
           Caught(SLP_update_permissions(S, ch.gpa, ch.r, ch.w, ch.x))
      [] ch.op = "request_event" -> Caught(User_request_event(S, ch.sub))
      [] ch.op = "cancel_event" -> Caught(User_cancel_event(S, ch.sub))
      [] ch.op = "put_event" -> put_event(S, UserEvent(ch.gpa))
      \* the VM facade; ch.gpa carries the cpu number
      [] ch.op = "cpu" -> Caught(VM_cpu(S, ch.gpa))
      [] ch.op = "lbr" -> Caught(VM_lbr(S, ch.gpa))
      [] ch.op = "lbr_enable" -> Caught(VM_lbr_enable(S, ch.gpa))
      \* an exception the callback does not handle
      [] ch.op = "raise" -> Raise(S, "UserError")

RequestChoices(S, subs) ==
    {Choice("request_event", sub, None, FALSE, FALSE, FALSE) : sub \in {u \in subs : ~S.cb[u].active}}
CancelChoices(S, subs) ==
    {Choice("cancel_event", sub, None, FALSE, FALSE, FALSE) : sub \in {u \in subs : S.cb[u].active}}
\* the same calls, whatever the state of the subscription
AnyChoices(subs) ==
    {Choice(op, sub, None, FALSE, FALSE, FALSE) :
        op \in {"request_event", "cancel_event"}, sub \in subs}
PutChoices == {Choice("put_event", slp_cb, tag, FALSE, FALSE, FALSE) : tag \in 1 .. 2}
RaiseChoices == {Choice("raise", slp_cb, None, FALSE, FALSE, FALSE)}
VmChoices ==
    {Choice(op, slp_cb, c, FALSE, FALSE, FALSE) : op \in {"cpu", "lbr", "lbr_enable"}, c \in Cpus}
PermChoices ==
    {Choice("update_permissions", slp_cb, ShiftLeft(g), r, w, x) :
        g \in Gfns, r \in BOOLEAN, w \in BOOLEAN, x \in BOOLEAN}

\* ------------------------------------------------------------ dispatch
callback_func(S, sub, event, ch) ==
    CASE sub.k = "slp_cb" -> SLP_slp_cb_func(S, event)
      [] sub.k = "slp_ss_cb" -> SLP_ss_cb_func(S, event)
      [] sub.k = "ss_cb_ss" -> SS_cb_func_ss(S, event)
      [] sub.k = "bp_cb_bp" -> BP_cb_func_bp(S, event)
      [] sub.k \in {"bp_cb_ss", "bp_ss"} -> BP_cb_func_ss(S, event)
      [] sub.k = "slp_rw_cb" -> Breakpoint_slp_rw_cb_func(S, sub.n)
      [] sub.k = "slp_x_cb" -> Breakpoint_slp_x_cb_func(S, sub.n)
      [] sub \in UserSubs -> UserCall(S, ch)

\* EventCallback.deliver: the test it makes ...
Accepts(S, sub, event) == event_cls(sub) = "None" \/ event_filter(S, sub, event)
\* ... and the call; obs.delivered: the callback invoked in the step, for
\* which event, and whether the subscription was active then; obs.seen: the
\* callbacks invoked for the event in dispatch
deliver(S, sub, event, ch) ==
    IF Accepts(S, sub, event)
    THEN callback_func([ObserveInvoked(S, sub) EXCEPT
                            !.obs.delivered = <<sub, event, S.cb[sub].active>>,
                            !.obs.seen = @ \cup {sub}], sub, event, ch)
    ELSE [S EXCEPT !.obs.skipped = <<sub, event>>]

\* EventManager.add_continue_hook
add_continue_hook(S, hook) ==
    [S EXCEPT !.em.continue_hooks = Append(@, hook)]

\* hook(): the continue hooks of the core plugins
continue_hook(S, hook) ==
    LET S1 == [S EXCEPT !.obs.hooks = Append(@, hook)] IN
    CASE hook = "VirtualMachine._cont_hook" -> VM_cont_hook(S1)
      [] hook = "SLPPlugin._cont_hook" -> SLP_cont_hook(S1)

\* variant: _call_continue_hooks going through the hooks last to first
RECURSIVE continue_hooks_backwards(_, _)
continue_hooks_backwards(S, i) ==
    IF i > Len(S.em.continue_hooks) \/ ~Ok(S) THEN S
    ELSE continue_hooks_backwards(
             continue_hook(S, S.em.continue_hooks[Len(S.em.continue_hooks) + 1 - i]),
             i + 1)

\* EventManager._call_continue_hooks: for hook in self._continue_hooks: hook()
RECURSIVE continue_hooks_from(_, _)
continue_hooks_from(S, i) ==
    IF i > Len(S.em.continue_hooks) \/ ~Ok(S) THEN S
    ELSE continue_hooks_from(continue_hook(S, S.em.continue_hooks[i]), i + 1)

call_continue_hooks(S) == continue_hooks_from([S EXCEPT !.obs.hooks = <<>>], 1)

\* ------------------------------------------------------------------ state
NoCalls == [n |-> 0, first |-> <<>>, all |-> <<>>, tried |-> FALSE,
            every |-> <<FALSE, FALSE, FALSE>>]
NoCall == [called |-> FALSE, gfn |-> None, wx |-> FALSE, raised |-> FALSE, changed |-> FALSE,
           sent |-> FALSE]
\* obs: what the last step did (reset by every step) ...
StepObs(o) == [o EXCEPT !.up_last = NoCall, !.user_err = "none",
                        !.delivered = <<>>, !.skipped = <<>>, !.api = <<>>,
                        !.ts_req = <<>>, !.ts_call = <<>>, !.stale = FALSE,
                        !.disorder = FALSE]
\* ... and what happened since the VM was last resumed (reset by the wait)
StopObs(o) == [o EXCEPT !.up_ok = [g \in Gfns |-> NoCalls], !.rwx_done = {}, !.ncalls = 0]

Cur == [em |-> em, svc |-> svc, pm |-> pm, cb |-> cb, slp |-> slp, ssp |-> ssp, bpp |-> bpp, tsp |-> tsp,
        vm |-> vm, hv |-> hv,
        obs |-> StepObs(obs), err |-> "none", ret |-> None, over |-> FALSE]

Commit(S) ==
    /\ ~S.over
    /\ em' = S.em
    /\ svc' = S.svc
    /\ pm' = S.pm
    /\ cb' = S.cb
    /\ slp' = S.slp
    /\ ssp' = S.ssp
    /\ bpp' = S.bpp
    /\ tsp' = S.tsp
    /\ vm' = S.vm
    /\ hv' = S.hv
    /\ obs' = S.obs
    /\ err' = S.err

Blank ==
    [em |-> [event_queue |-> <<>>, event_callbacks |-> Put(EmptyMap, "*", <<>>),
             continue_hooks |-> <<>>, event_plugins |-> BuiltinEvents],
     svc |-> [service_registry |-> EmptyMap],
     pm |-> [loaded_plugins |-> EmptyMap],
     cb |-> [s \in Subs |-> [active |-> FALSE, request_id |-> None]],
     slp |-> [request_id_cntr |-> 0, requests |-> EmptyMap, perm_requests |-> EmptyMap,
              slp_events |-> <<>>, rwx_perm_request |-> [c \in Cpus |-> <<>>]],
     ssp |-> [request_id_cntr |-> 0, ss |-> [c \in Cpus |-> "None"],
              ss_inst_ptr |-> [c \in Cpus |-> None]],
     bpp |-> [request_id_cntr |-> 0, requests |-> <<>>, obj |-> EmptyMap],
     tsp |-> [request_id_cntr |-> 0, requests |-> EmptyMap],
     vm |-> [lbr_enabled |-> [c \in Cpus |-> 0], cpus |-> EmptyMap, lbrs |-> EmptyMap],
     hv |-> [slp_perm |-> [g \in Gfns |-> <<>>], slp_sent |-> [g \in Gfns |-> <<>>],
             debug_bp |-> [g \in Gpas |-> FALSE], ss |-> [c \in Cpus |-> {}],
             slp_feat |-> EmptyMap, ip |-> [c \in Cpus |-> PAGE_SIZE + VaOffset],
             lbr |-> [c \in Cpus |-> FALSE], ts |-> [d \in Dtbs |-> <<>>], stops |-> 0],
     obs |-> [up_last |-> NoCall, user_err |-> "none", delivered |-> <<>>, skipped |-> <<>>,
              api |-> <<>>,
              up_ok |-> [g \in Gfns |-> NoCalls], rwx_done |-> {}, ncalls |-> 0,
              requested |-> {}, canceled |-> {}, twice |-> FALSE, rereq |-> {},
              puts |-> <<>>, ndisp |-> 0, seen |-> {}, was |-> {},
              lbr |-> [c \in Cpus |-> NoLbrCalls], ts_req |-> <<>>, ts_call |-> <<>>,
              stale |-> FALSE, hooks |-> <<>>,
              reg |-> EmptyMap, last |-> <<"", 0>>, disorder |-> FALSE],
     err |-> "none", ret |-> None, over |-> FALSE]

\* the constructors of the core plugins, in load order: VirtualMachine,
\* SLPPlugin, SingleStepPlugin, BreakpointPlugin
Constructed ==
    LET E1 == SM_register(Blank, Obj("EventManager", "None", 1), "None")
        P1 == SM_register(E1, Obj("PluginManager", "None", 1), "None")
        V0 == SM_register(P1, VirtualMachine, VirtualMachine.name)
        V1 == add_continue_hook(V0, "VirtualMachine._cont_hook")
        T1 == EM_register(Plugin_init(V1, TaskSwitchPlugin), TaskSwitchPlugin)
        S0 == EM_request_event(EM_register(Plugin_init(T1, SLPPlugin), SLPPlugin),
                               slp_cb, FALSE)
        S1 == add_continue_hook(S0, "SLPPlugin._cont_hook")
        S2 == EM_request_event(
                  EM_register(Plugin_init(S1, SingleStepPlugin), SingleStepPlugin),
                  ss_cb_ss, FALSE)
        S3 == EM_request_event(
                  EM_register(Plugin_init(S2, BreakpointPlugin), BreakpointPlugin),
                  bp_cb_bp, FALSE)
        S4 == EM_request_event(S3, bp_cb_ss, FALSE)
    IN [S4 EXCEPT !.pm.loaded_plugins =
            [p \in CorePlugins |-> EventPlugin(p, Produces(p))]]

Init ==
    /\ em = Constructed.em
    /\ svc = Constructed.svc
    /\ pm = Constructed.pm
    /\ cb = Constructed.cb
    /\ slp = Constructed.slp
    /\ ssp = Constructed.ssp
    /\ bpp = Constructed.bpp
    /\ tsp = Constructed.tsp
    /\ vm = Constructed.vm
    /\ hv = Constructed.hv
    /\ obs = Constructed.obs
    /\ err = "none"
    /\ pc = "init"
    /\ cur = NoEvent
    /\ key = "*"
    /\ idx = 1

\* ---------------------------------------------- the hypervisor at the wait
Covers(p, gfn) ==
    p.global_req \/ (p.gfn # None /\ p.gfn <= gfn /\ gfn <= p.gfn + (p.num_pages - 1))
TrapEnabled(gfn, a) ==
    \E p \in DOMAIN hv.slp_feat :
        /\ Covers(p, gfn)
        /\ \/ a = 1 /\ p.trap_r
           \/ a = 2 /\ p.trap_w
           \/ a = 3 /\ p.trap_x
Denied(gfn, a) == hv.slp_perm[gfn] = <<>> \/ ~hv.slp_perm[gfn][a]
Executable(gfn) == hv.slp_perm[gfn] = <<>> \/ hv.slp_perm[gfn][3]

\* the traps CPU c can raise while the guest runs: a single step it was armed
\* for, a hit of an installed debug breakpoint, a violation of a requested
\* SLP trap on a page whose permissions deny the access (or, with a
\* hypervisor that breaks its contract, on any page with a requested trap);
\* env.stray: the methods of steps that something else than the single-step
\* coordinator has armed
PossibleEvents(c, env) ==
    {[SystemEventSingleStep(c, m) EXCEPT !.gva = a] :
        m \in hv.ss[c] \cup env.stray, a \in env.ips}
    \cup {SystemEventBreakpoint(c, g + VaOffset, g) :
            g \in {b \in Gpas : hv.debug_bp[b] /\ Executable(ShiftRight(b))}}
    \cup {SystemEventSLP(c, v[1], v[2] = 1, v[2] = 2, v[2] = 3, rwx) :
            v \in {u \in env.gpas \X env.accs : /\ TrapEnabled(ShiftRight(u[1]), u[2])
                                                /\ (Denied(ShiftRight(u[1]), u[2])
                                                    \/ env.refault)},
            rwx \in env.rwxs}

\* at most one trap per CPU, in any order, and the shutdown of the VM
RECURSIVE Drains(_, _, _)
Drains(cpus, n, env) ==
    {<<>>} \cup
    (IF n = 0 THEN {}
     ELSE UNION {{<<e>> \o rest : e \in PossibleEvents(c, env),
                                  rest \in Drains(cpus \ {c}, n - 1, env)} : c \in cpus})

\* what get_event returns until it returns None
Pending(env) ==
    Drains(Cpus, NumCpus, env)
    \cup (IF env.shutdown
          THEN {es \o <<SystemEventVmShutdown>> : es \in Drains(Cpus, NumCpus, env)}
          ELSE {})

RECURSIVE SetIp(_, _, _)
SetIp(ip, es, i) ==
    IF i > Len(es) THEN ip
    ELSE IF es[i].cpu_num = None THEN SetIp(ip, es, i + 1)
    ELSE SetIp([ip EXCEPT ![es[i].cpu_num] = es[i].gva], es, i + 1)

\* ----------------------------------------------------------------- actions
Bucket == IF key \in DOMAIN em.event_callbacks THEN em.event_callbacks[key] ELSE <<>>

\* a user plugin's constructor, run by load_user_plugins before the run loop
UserInit(choices) ==
    /\ pc = "init"
    /\ obs.ncalls < MaxCalls
    /\ \E ch \in choices : Commit(UserCall(Cur, ch))
    /\ UNCHANGED <<pc, cur, key, idx>>

\* the same, for constructors that make up to MaxInitCalls calls
UserInitCalls(choices) ==
    /\ pc = "init"
    /\ obs.ncalls < MaxInitCalls
    /\ \E ch \in choices : Commit(UserCall(Cur, ch))
    /\ UNCHANGED <<pc, cur, key, idx>>

\* event.run(): enter run_loop
RunLoop ==
    /\ pc = "init"
    /\ pc' = "hooks"
    /\ Commit(Cur)
    /\ UNCHANGED <<cur, key, idx>>

\* _get_system_events, first half: the continue hooks
ContinueHooks ==
    /\ pc = "hooks"
    /\ LET S1 == call_continue_hooks(Cur)
       IN /\ Commit(S1)
          /\ pc' = IF Ok(S1) THEN "wait" ELSE "crashed"
    /\ UNCHANGED <<cur, key, idx>>

\* _get_system_events, second half: the VM runs, then wait_event returns and
\* every pending trap is put into the queue
WaitEvent(env) ==
    /\ pc = "wait"
    /\ \E es \in Pending(env) :
          /\ es # <<>> => hv.stops < MaxStops
          /\ LET S0 == [Cur EXCEPT !.hv.ip = SetIp(@, es, 1),
                                   !.hv.stops = IF es = <<>> THEN @ ELSE @ + 1,
                                   !.hv.slp_sent = [g \in Gfns |-> <<>>],
                                   !.obs = [StopObs(@) EXCEPT !.puts = em.event_queue,
                                                              !.ndisp = 0]]
             IN Commit(put_events(S0, es, 1))
    /\ pc' = "pop"
    /\ UNCHANGED <<cur, key, idx>>

\* run_loop: while self._event_queue: event = self._event_queue.pop(0)
PopEvent ==
    /\ pc = "pop"
    /\ em.event_queue # <<>>
    /\ Commit([Cur EXCEPT !.em.event_queue = Tail(@),
                          !.obs.ndisp = @ + 1,
                          !.obs.seen = {},
                          !.obs.last = <<"", 0>>,
                          !.obs.was = {s \in UserSubs : cb[s].active}])
    /\ cur' = Head(em.event_queue)
    /\ key' = "*"
    /\ idx' = 1
    /\ pc' = "dispatch"

QueueEmpty ==
    /\ pc = "pop"
    /\ em.event_queue = <<>>
    /\ Commit([Cur EXCEPT !.obs.puts = <<>>, !.obs.ndisp = 0])
    /\ pc' = "hooks"
    /\ UNCHANGED <<cur, key, idx>>

\* _dispatch_event: one step of "for callback in bucket: callback.deliver(event)"
Deliver(choices) ==
    /\ pc = "dispatch"
    /\ idx <= Len(Bucket)
    /\ LET sub == Bucket[idx] IN
       \E ch \in (IF sub \in UserSubs /\ Accepts(Cur, sub, cur)
                     /\ obs.ncalls < MaxCalls
                  THEN choices \cup {NoChoice} ELSE {NoChoice}) :
          LET S1 == deliver(Cur, sub, cur, ch)
          IN /\ Commit(S1)
             /\ pc' = IF Ok(S1) THEN "dispatch" ELSE "crashed"
    /\ idx' = idx + 1
    /\ UNCHANGED <<cur, key>>

\* _dispatch_event: the wildcard bucket is done, go on with the event's own
NextBucket ==
    /\ pc = "dispatch"
    /\ idx > Len(Bucket)
    /\ key = "*"
    /\ key' = cur.kind
    /\ idx' = 1
    /\ Commit(Cur)
    /\ UNCHANGED <<pc, cur>>

EndDispatch ==
    /\ pc = "dispatch"
    /\ idx > Len(Bucket)
    /\ key # "*"
    /\ pc' = IF cur.kind = KShutdown THEN "done" ELSE "pop"
    /\ Commit(IF cur.kind = KShutdown THEN Cur
              ELSE [Cur EXCEPT !.obs.seen = {}, !.obs.was = {}, !.obs.last = <<"", 0>>])
    /\ UNCHANGED <<cur, key, idx>>

\* a plugin calls vm.lbr_enable / vm.lbr_disable, for one CPU or for all;
\* no counter goes below zero
CpuArgs == Cpus \cup {None}
Counted(cpu_num) == IF cpu_num = None THEN Cpus ELSE {cpu_num}
LbrEnable(cpu_num) ==
    /\ \A c \in Counted(cpu_num) : obs.lbr[c].enables < MaxLbr
    /\ Commit(VM_lbr_enable(Cur, cpu_num))
    /\ UNCHANGED <<pc, cur, key, idx>>
LbrDisable(cpu_num) ==
    /\ \A c \in Counted(cpu_num) : vm.lbr_enabled[c] > 0
    /\ Commit(VM_lbr_disable(Cur, cpu_num))
    /\ UNCHANGED <<pc, cur, key, idx>>

\* a plugin is registered with the event manager as a producer, or
\* unregistered; the core plugins, and plugins of the user that list an
\* event class of their own, alone or with one of another producer
EventPlugins ==
    {TaskSwitchPlugin, SLPPlugin, SingleStepPlugin, BreakpointPlugin,
     EventPlugin("UserPlugin1", <<KUser>>),
     EventPlugin("UserPlugin2", <<KUser, KBP>>),
     EventPlugin("UserPlugin3", <<KShutdown>>)}
EmRegister(plugin) ==
    /\ Commit(EM_register([Cur EXCEPT !.obs.api = <<"register", plugin>>], plugin))
    /\ UNCHANGED <<pc, cur, key, idx>>
EmUnregister(plugin) ==
    /\ Commit(EM_unregister([Cur EXCEPT !.obs.api = <<"unregister", plugin>>], plugin))
    /\ UNCHANGED <<pc, cur, key, idx>>

\* the plugin manager loads a plugin of the user, or unloads a loaded one
UserPlugins ==
    {EventPlugin("UserPlugin1", <<KUser>>),
     EventPlugin("UserPlugin2", <<KUser, KBP>>),
     EventPlugin("UserPlugin3", <<KShutdown>>),
     EventPlugin("UserPlugin4", <<"UserEvent2", "UserEvent3">>),
     EventPlugin("UserPlugin5", <<"UserEvent3">>)}
LoadPlugin(cls, reload) ==
    /\ Commit(PM_load_plugin([Cur EXCEPT !.obs.api = <<"load_plugin", cls>>], cls, reload))
    /\ UNCHANGED <<pc, cur, key, idx>>
UnloadPlugin(plugin) ==
    /\ plugin.name \in DOMAIN pm.loaded_plugins
    /\ Commit(PM_unload_plugin([Cur EXCEPT !.obs.api = <<"unload_plugin", plugin>>], plugin))
    /\ UNCHANGED <<pc, cur, key, idx>>

\* services are registered, looked up and unregistered: the event manager
\* and the VM facade once more, a second VM facade, and plugins of the user,
\* one of them with the name of the VM facade
Services ==
    {Obj("EventManager", "None", 1), VirtualMachine,
     Obj("VirtualMachineX86_64", "VirtualMachine", 2),
     Obj("UserPlugin", "UserPlugin", 1)}
ServiceNames == {"VirtualMachine", "UserPlugin"}
SvcRegister(obj, name) ==
    /\ Commit(SM_register([Cur EXCEPT !.obs.api = <<"register", obj, name>>], obj, name))
    /\ UNCHANGED <<pc, cur, key, idx>>
SvcUnregisterByName(name) ==
    /\ Commit(SM_unregister_by_name(
                  [Cur EXCEPT !.obs.api = <<"unregister_by_name", NoObj, name>>], name))
    /\ UNCHANGED <<pc, cur, key, idx>>
SvcUnregisterByObject(obj) ==
    /\ Commit(SM_unregister_by_object(
                  [Cur EXCEPT !.obs.api = <<"unregister_by_object", obj, obj.name>>], obj))
    /\ UNCHANGED <<pc, cur, key, idx>>
SvcGet(name) ==
    /\ Commit(SM_get([Cur EXCEPT !.obs.api = <<"get", NoObj, name>>], name))
    /\ UNCHANGED <<pc, cur, key, idx>>

\* a plugin requests task-switch events for a dtb and directions, and
\* cancels requests it holds
TsRequest(request) ==
    /\ tsp.request_id_cntr < MaxTs
    /\ Commit(TS_request_event(Cur, request))
    /\ UNCHANGED <<pc, cur, key, idx>>
TsCancel(request_id) ==
    /\ request_id \in DOMAIN tsp.requests
    /\ Commit(TS_cancel_event(Cur, request_id))
    /\ UNCHANGED <<pc, cur, key, idx>>

\* --------------------------------------------------------- specifications
\* the SLP coordinator under user plugins that subscribe to violations and
\* update page permissions
\* violations at the page bases, with and without the RWX mark
SlpEnv == [rwxs |-> BOOLEAN, accs |-> 1 .. 3, gpas |-> {ShiftLeft(g) : g \in Gfns},
           ips |-> {PAGE_SIZE + VaOffset}, shutdown |-> FALSE, refault |-> FALSE, stray |-> {}]
SlpChoices ==
    PermChoices \cup RequestChoices(Cur, UserSlpSubs)
NextSlp ==
    \/ UserInit(SlpChoices)
    \/ RunLoop
    \/ ContinueHooks
    \/ WaitEvent(SlpEnv)
    \/ PopEvent
    \/ QueueEmpty
    \/ Deliver(PermChoices)
    \/ NextBucket
    \/ EndDispatch
SpecSlp == Init /\ [][NextSlp]_vars

\* the SLP coordinator with a hypervisor that reports violations with the
\* RWX mark again before the single step it was asked for
RwxEnv == [rwxs |-> BOOLEAN, accs |-> 2 .. 3, gpas |-> {ShiftLeft(g) : g \in Gfns},
           ips |-> {PAGE_SIZE + VaOffset}, shutdown |-> FALSE, refault |-> TRUE, stray |-> {}]
NextRwx ==
    \/ UserInit(RequestChoices(Cur, UserSlpSubs))
    \/ RunLoop
    \/ ContinueHooks
    \/ WaitEvent(RwxEnv)
    \/ PopEvent
    \/ QueueEmpty
    \/ Deliver({})
    \/ NextBucket
    \/ EndDispatch
SpecRwx == Init /\ [][NextRwx]_vars

\* the breakpoint engine under user plugins that request and cancel
\* breakpoints; the guest writes and executes, no violation carries the RWX mark
BpEnv == [rwxs |-> {FALSE}, accs |-> 2 .. 3, gpas |-> {ShiftLeft(g) : g \in Gfns},
          ips |-> {PAGE_SIZE + VaOffset}, shutdown |-> FALSE, refault |-> FALSE, stray |-> {}]
BpChoices ==
    RequestChoices(Cur, UserBpSubs) \cup CancelChoices(Cur, UserBpSubs)
NextBp ==
    \/ UserInit(BpChoices)
    \/ RunLoop
    \/ ContinueHooks
    \/ WaitEvent(BpEnv)
    \/ PopEvent
    \/ QueueEmpty
    \/ Deliver(BpChoices)
    \/ NextBucket
    \/ EndDispatch
SpecBp == Init /\ [][NextBp]_vars

\* the event manager under user plugins that request and cancel violation
\* and breakpoint subscriptions in any order
EmSubs == UserSlpSubs \cup {user_bp(1, ShiftLeft(g)) : g \in Gfns}
NextEm ==
    \/ UserInit(AnyChoices(EmSubs))
    \/ RunLoop
    \/ ContinueHooks
    \/ WaitEvent(BpEnv)
    \/ PopEvent
    \/ QueueEmpty
    \/ Deliver(AnyChoices(EmSubs))
    \/ NextBucket
    \/ EndDispatch
SpecEm == Init /\ [][NextEm]_vars

\* the run loop under user plugins that subscribe to every event and to
\* single steps, publish events of their own, cancel their subscriptions and
\* raise errors; the VM steps and shuts down
LoopEnv == [rwxs |-> {FALSE}, accs |-> {}, gpas |-> {}, ips |-> {PAGE_SIZE + VaOffset},
            shutdown |-> TRUE, refault |-> FALSE, stray |-> {}]
LoopSubs == UserAllSubs \cup {user_ss(c, "None") : c \in Cpus}
LoopInitChoices == RequestChoices(Cur, LoopSubs) \cup PutChoices
LoopChoices ==
    RequestChoices(Cur, LoopSubs) \cup CancelChoices(Cur, LoopSubs)
    \cup PutChoices \cup RaiseChoices
NextLoop ==
    \/ UserInit(LoopInitChoices)
    \/ RunLoop
    \/ ContinueHooks
    \/ WaitEvent(LoopEnv)
    \/ PopEvent
    \/ QueueEmpty
    \/ Deliver(LoopChoices)
    \/ NextBucket
    \/ EndDispatch
SpecLoop == Init /\ [][NextLoop]_vars

\* the same run loop under plugins whose constructors register wildcard
\* subscriptions, also ones that are registered already, and put events
RegInitChoices ==
    {Choice("request_event", sub, None, FALSE, FALSE, FALSE) : sub \in UserAllSubs}
    \cup PutChoices
RegChoices ==
    RequestChoices(Cur, UserAllSubs) \cup CancelChoices(Cur, UserAllSubs) \cup PutChoices
NextReg ==
    \/ UserInitCalls(RegInitChoices)
    \/ RunLoop
    \/ ContinueHooks
    \/ WaitEvent(LoopEnv)
    \/ PopEvent
    \/ QueueEmpty
    \/ Deliver(RegChoices)
    \/ NextBucket
    \/ EndDispatch
SpecReg == Init /\ [][NextReg]_vars

\* the single-step coordinator under user plugins that request steps with
\* either method, or none, on every CPU and cancel them
SsEnv == [rwxs |-> {FALSE}, accs |-> {}, gpas |-> {}, ips |-> {PAGE_SIZE + VaOffset},
          shutdown |-> FALSE, refault |-> FALSE, stray |-> {}]
SsChoices == RequestChoices(Cur, UserSsSubs) \cup CancelChoices(Cur, UserSsSubs)
NextSs ==
    \/ UserInit(SsChoices)
    \/ RunLoop
    \/ ContinueHooks
    \/ WaitEvent(SsEnv)
    \/ PopEvent
    \/ QueueEmpty
    \/ Deliver(SsChoices)
    \/ NextBucket
    \/ EndDispatch
SpecSs == Init /\ [][NextSs]_vars

\* the coordinators under user plugins that request single steps, with
\* steps that were armed past the single-step coordinator
StrayEnv == [SsEnv EXCEPT !.stray = {"DEBUG"}]
StrayChoices == RequestChoices(Cur, UserSsSubs)
NextStray ==
    \/ UserInit(StrayChoices)
    \/ RunLoop
    \/ ContinueHooks
    \/ WaitEvent(StrayEnv)
    \/ PopEvent
    \/ QueueEmpty
    \/ Deliver(StrayChoices)
    \/ NextBucket
    \/ EndDispatch
SpecStray == Init /\ [][NextStray]_vars

\* the VM facade under plugins that enable and disable the LBR
NextLbr ==
    \/ \E cpu_num \in CpuArgs : LbrEnable(cpu_num)
    \/ \E cpu_num \in CpuArgs : LbrDisable(cpu_num)
SpecLbr == Init /\ [][NextLbr]_vars

\* the task-switch coordinator under plugins that request and cancel
TsRequests ==
    {TsRequestParams(d, i, o) : d \in Dtbs, i \in BOOLEAN, o \in BOOLEAN}
NextTs ==
    \/ \E request \in TsRequests : TsRequest(request)
    \/ \E request_id \in 0 .. (MaxTs - 1) : TsCancel(request_id)
SpecTs == Init /\ [][NextTs]_vars

\* the service registry under its four operations
NextSvc ==
    \/ \E obj \in Services, name \in ServiceNames \cup {"None"} : SvcRegister(obj, name)
    \/ \E name \in ServiceNames : SvcUnregisterByName(name)
    \/ \E obj \in Services : SvcUnregisterByObject(obj)
    \/ \E name \in ServiceNames : SvcGet(name)
SpecSvc == Init /\ [][NextSvc]_vars

\* the producer table under registrations and unregistrations
NextProd ==
    \/ \E plugin \in EventPlugins : EmRegister(plugin)
    \/ \E plugin \in EventPlugins : EmUnregister(plugin)
SpecProd == Init /\ [][NextProd]_vars

\* the plugin manager under loads and unloads of user plugins
NextLoad ==
    \/ \E cls \in UserPlugins, reload \in BOOLEAN : LoadPlugin(cls, reload)
    \/ \E plugin \in UserPlugins : UnloadPlugin(plugin)
SpecLoad == Init /\ [][NextLoad]_vars

\* ------------------------------------------------------------- properties
HvWX(g) == hv.slp_perm[g] # <<>> /\ hv.slp_perm[g][2] /\ hv.slp_perm[g][3]
Resumed == pc = "wait"

\* C1: every call of update_permissions either raises or leaves a request
\* without w and x both set; when the merge of the new flags with the page's
\* request (the new flags alone when there is none) has w and x, the call
\* raises, the request map is unchanged and no slp_update is sent.
C1_WxCallRejected ==
    obs.up_last.called =>
        /\ obs.up_last.raised
           \/ ~(slp.perm_requests[obs.up_last.gfn][2] /\ slp.perm_requests[obs.up_last.gfn][3])
        /\ obs.up_last.wx =>
              obs.up_last.raised /\ ~obs.up_last.changed /\ ~obs.up_last.sent

\* C2: at every resume no entry of the per-page request map is committed
\* with w and x both set.
C2_NoCommittedWxAtResume ==
    Resumed => \A g \in DOMAIN slp.perm_requests :
                  ~(slp.perm_requests[g][4] /\ slp.perm_requests[g][2]
                    /\ slp.perm_requests[g][3])
\* a resume after a stop in which callers asked w and x for a page
C2_ResumeAfterWxCalls ==
    Resumed /\ \E g \in Gfns : obs.up_ok[g].n >= 1 /\ obs.up_ok[g].all[2] /\ obs.up_ok[g].all[3]

\* C3 as stated: for every page with one or more calls of update_permissions
\* in a stop, the hypervisor has received at the resume exactly one
\* slp_update for the page, carrying the OR of the flags of all the calls.
C3_SingleMergedUpdate ==
    Resumed => \A g \in Gfns :
                  obs.up_ok[g].tried => hv.slp_sent[g] = <<obs.up_ok[g].every>>
\* C3 amended: for every page with calls of update_permissions that returned
\* in a stop, and no RWX violation resolved for it in that stop, the
\* hypervisor has received at the resume the flags of the first such call
\* and, when more calls returned, one more update with the OR of the flags of
\* all of them.
C3_FirstThenMerged ==
    Resumed => \A g \in Gfns :
                  g \notin obs.rwx_done =>
                     /\ obs.up_ok[g].n = 1 => hv.slp_sent[g] = <<obs.up_ok[g].first>>
                     /\ obs.up_ok[g].n = 2 =>
                           hv.slp_sent[g] = <<obs.up_ok[g].first, obs.up_ok[g].all>>
\* a resume after two calls for a page, the second adding a flag
C3_ResumeAfterTwoCalls ==
    Resumed /\ \E g \in Gfns : /\ g \notin obs.rwx_done
                               /\ obs.up_ok[g].n = 2
                               /\ obs.up_ok[g].first # obs.up_ok[g].all

\* C4: a page is writable and executable at the hypervisor only while some
\* CPU's RWX-pending slot names it.
C4_WxOnlyWhilePending ==
    \A g \in Gfns :
        HvWX(g) => \E c \in Cpus : /\ slp.rwx_perm_request[c] # <<>>
                                  /\ slp.rwx_perm_request[c][1] = g

\* C5: when the SingleStep event of a CPU with a pending RWX resolution is
\* delivered to the coordinator, the recorded (r, w, x) is applied through
\* update_permissions, the slot is cleared and the single-step subscription
\* cancelled, without an error.
C5_RestoreCompletes ==
    \A c \in Cpus :
        (obs.delivered # <<>> /\ obs.delivered[1] = slp_ss_cb(c)) =>
            /\ err = "none"
            /\ obs.up_last.called /\ ~obs.up_last.raised
            /\ slp.rwx_perm_request[c] = <<>>
            /\ ~cb[slp_ss_cb(c)].active

\* the breakpoint records the plugin holds, and their states
Records == {bpp.requests[i] : i \in 1 .. Len(bpp.requests)}
Armed(id) == bpp.obj[id].is_set
Hidden(id) == ~bpp.obj[id].is_set
PageOf(id) == ShiftRight(bpp.obj[id].gpa)
Running == pc # "crashed"

\* C6: between callbacks, the hypervisor debug breakpoint is installed at a
\* gpa if and only if the plugin holds an Armed record for that gpa.
C6_DebugBpIffArmed ==
    Running => \A g \in Gpas :
                  hv.debug_bp[g] <=> \E id \in Records : bpp.obj[id].gpa = g /\ Armed(id)

\* C7: at every resume, the page of an Armed record is execute-only at the
\* hypervisor and the record's RW subscription is active; the page of a
\* Hidden record is r+w without x and its X subscription is active.
C7_PageFollowsRecord ==
    Resumed => \A id \in Records :
                  /\ Armed(id) => /\ hv.slp_perm[PageOf(id)] = <<FALSE, FALSE, TRUE>>
                                  /\ cb[slp_rw_cb(id)].active
                  /\ Hidden(id) => /\ hv.slp_perm[PageOf(id)] = <<TRUE, TRUE, FALSE>>
                                   /\ cb[slp_x_cb(id)].active

\* C8: a read or write violation delivered to the RW callback of a record
\* moves it to Hidden, an execute violation delivered to its X callback
\* moves it back to Armed, each without an error.
C8_TransitionsComplete ==
    \A id \in Ids :
        /\ (obs.delivered # <<>> /\ obs.delivered[1] = slp_rw_cb(id)) =>
              /\ err = "none"
              /\ Hidden(id) /\ ~hv.debug_bp[bpp.obj[id].gpa]
              /\ obs.up_last.called /\ ~obs.up_last.raised
              /\ ~cb[slp_rw_cb(id)].active /\ cb[slp_x_cb(id)].active
        /\ (obs.delivered # <<>> /\ obs.delivered[1] = slp_x_cb(id)) =>
              /\ err = "none"
              /\ Armed(id) /\ hv.debug_bp[bpp.obj[id].gpa]
              /\ obs.up_last.called /\ ~obs.up_last.raised
              /\ ~cb[slp_x_cb(id)].active /\ cb[slp_rw_cb(id)].active

\* C9: when the SingleStep event that follows a breakpoint hit on a CPU is
\* delivered to the breakpoint plugin and the instruction pointer saved at
\* arming translates to the gpa of a tracked breakpoint, the plugin puts a
\* Breakpoint event with that cpu, gva and gpa into the queue.
C9_StepSynthesizesBreakpoint ==
    [][(/\ pc = "dispatch"
        /\ cur.kind = KSS
        /\ idx <= Len(Bucket)
        /\ Bucket[idx] = bp_cb_ss
        /\ cb[bp_ss(cur.cpu_num)].active
        /\ ssp.ss_inst_ptr[cur.cpu_num] # None
        /\ \E id \in Records : bpp.obj[id].gpa = vtop(ssp.ss_inst_ptr[cur.cpu_num]))
       => \E i \in 1 .. Len(em'.event_queue) :
             em'.event_queue[i] =
                SystemEventBreakpoint(cur.cpu_num, ssp.ss_inst_ptr[cur.cpu_num],
                                      vtop(ssp.ss_inst_ptr[cur.cpu_num]))]_vars

\* the subscriptions whose requests are forwarded to a producer
Forwarded == Subs \ {slp_cb, ss_cb_ss, bp_cb_bp, bp_cb_ss}
Cancelled(e) == <<event_key(e[1]), e[2]>> \in obs.canceled
\* the producer was asked once for an active subscription and holds its id;
\* an id it returned is cancelled once, when the subscription is cancelled
Paired(s) ==
    /\ cb[s].active => /\ cb[s].request_id # None
                       /\ <<s, cb[s].request_id>> \in obs.requested
    /\ \A e \in obs.requested :
          e[1] = s => \/ Cancelled(e)
                      \/ cb[s].active /\ cb[s].request_id = e[2]

\* C10 as stated: for any sequence of request_event and cancel_event calls
\* with forwarding, every id a producer returned is passed to its
\* cancel_event exactly once, when the subscription is cancelled, and none
\* is left once the subscription is inactive.
C10_ProducerPairing ==
    Running => ~obs.twice /\ \A s \in Forwarded : Paired(s)
\* C10 amended: the same, for the subscriptions that request_event was never
\* applied to while they were active.
C10_PairingOfSingleRequests ==
    Running => ~obs.twice /\ \A s \in Forwarded \ obs.rereq : Paired(s)
\* a subscription requested once and cancelled, its id cancelled with it
C10_RequestedThenCancelled ==
    \E e \in obs.requested :
        /\ e[1] \in UserSubs \ obs.rereq
        /\ ~cb[e[1]].active
        /\ Cancelled(e)

\* the event manager holds no reference to s
InBucket(s) ==
    \E k \in DOMAIN em.event_callbacks :
        \E i \in 1 .. Len(em.event_callbacks[k]) : em.event_callbacks[k][i] = s
Released(s) == ~InBucket(s) /\ ~cb[s].active /\ cb[s].request_id = None
\* the call a user plugin made in the last step returned
Returned(op, s) == obs.api = <<op, s>> /\ obs.user_err = "none"

\* C11 as stated: for any sequence of request_event and cancel_event calls,
\* once cancel_event(s) has returned s is in no bucket, s.active is false and
\* s.request_id is None.
C11_CancelReleases ==
    \A s \in UserSubs : Returned("cancel_event", s) => Released(s)
\* C11 amended: the same, when request_event was applied to s only while s
\* was not active.
C11_CancelReleasesSingle ==
    \A s \in UserSubs \ obs.rereq : Returned("cancel_event", s) => Released(s)
\* cancel_event has just returned for a subscription that was forwarded to
\* its producer
C11_CancelReturned ==
    \E e \in obs.requested :
        e[1] \in UserSubs \ obs.rereq /\ Returned("cancel_event", e[1])

\* C12: events are dispatched in the order of put_event: the event in
\* dispatch, and every event a callback is invoked for, is the next of the
\* events put that was not dispatched before.
C12_FifoDispatch ==
    /\ pc = "dispatch" => /\ obs.ndisp \in 1 .. Len(obs.puts)
                          /\ cur = obs.puts[obs.ndisp]
    /\ obs.delivered # <<>> => obs.delivered[2] = obs.puts[obs.ndisp]
\* a callback is invoked for an event that a callback put while an event of
\* the hypervisor was in dispatch
C12_SecondEventDelivered ==
    /\ obs.ndisp >= 2
    /\ obs.delivered # <<>>
    /\ obs.delivered[2].kind = KUser
    /\ obs.puts[1].kind # KUser
    /\ obs.delivered[1] \in obs.seen

\* the wildcard subscriptions that were active when the event in dispatch
\* was popped and still are, and were not invoked for it
Missed == {s \in UserAllSubs \cap obs.was : cb[s].active /\ s \notin obs.seen}

\* C13: when the wildcard bucket is done, every wildcard subscription that
\* is active during the dispatch has been invoked for the event.
C13_WildcardSeesAll ==
    (pc = "dispatch" /\ key # "*") => Missed = {}

\* what the filter of a subscription's event class is to accept
ExpectMatch(s, e) ==
    CASE s.k = "user_ss" ->
           e.kind = KSS /\ e.cpu_num = s.n /\ (s.p = "None" \/ e.method = s.p)
      [] s.k \in {"slp_ss_cb", "bp_ss"} -> e.kind = KSS /\ e.cpu_num = s.p
      [] s.k \in {"ss_cb_ss", "bp_cb_ss"} -> e.kind = KSS
      [] s.k = "bp_cb_bp" -> e.kind = KBP
      [] s.k = "user_bp" -> e.kind = KBP /\ e.gpa = s.p
      [] s.k = "slp_cb" -> e.kind = KSLP
      [] s.k = "user_slp" -> e.kind = KSLP /\ ShiftRight(e.gpa) = s.p
      [] s.k = "slp_rw_cb" ->
           e.kind = KSLP /\ ShiftRight(e.gpa) = PageOf(s.n) /\ (e.r \/ e.w)
      [] s.k = "slp_x_cb" -> e.kind = KSLP /\ ShiftRight(e.gpa) = PageOf(s.n) /\ e.x
      [] OTHER -> TRUE

\* C14: a subscription under an event name has its callback invoked for an
\* event only if the filter of its event class accepts the event with the
\* subscription's parameters, and is passed over when it does not.
C14_FilterGuardsCallback ==
    /\ obs.delivered # <<>> => ExpectMatch(obs.delivered[1], obs.delivered[2])
    /\ obs.skipped # <<>> => ~ExpectMatch(obs.skipped[1], obs.skipped[2])
\* a breakpoint subscriber was passed over for a hit at another address
C14_SubscriberPassedOver ==
    /\ obs.skipped # <<>>
    /\ obs.skipped[1] \in UserBpSubs
    /\ obs.skipped[2].kind = KBP

\* C15: when run_loop has returned after the dispatch of VmShutdown, every
\* wildcard subscription active during that dispatch was invoked for it.
C15_ShutdownReachesAll ==
    pc = "done" => cur.kind = KShutdown /\ Missed = {}

\* C16: an error raised by a subscriber callback is swallowed: the dispatch
\* goes on and run_loop does not end.
C16_CallbackErrorSwallowed ==
    (obs.api # <<>> /\ obs.api[1] = "raise") => (pc = "dispatch" /\ err = "none")

\* the method a single-step subscription asks for, and whether its CPU is
\* armed with another
MethodOf(s) == IF s.p = "None" THEN default_method ELSE s.p
Conflict(s) == ssp.ss[s.n] # "None" /\ ssp.ss[s.n] # MethodOf(s)

\* C17: a single-step request for a CPU armed with another method fails with
\* ValueError and changes nothing: no hypervisor feature, not the CPU's
\* method or saved instruction pointer, not the request-id counter, no
\* subscription.
C17_ConflictChangesNothing ==
    [][\A s \in UserSsSubs :
          (obs'.api = <<"request_event", s>> /\ Conflict(s)) =>
              /\ obs'.user_err = "ValueError"
              /\ hv' = hv
              /\ ssp' = ssp
              /\ cb' = cb
              /\ em' = em]_vars
\* a request was refused while the step requested before it is still armed
\* at the hypervisor
C17_RefusedWhileArmed ==
    \E s \in UserSsSubs :
        /\ obs.api = <<"request_event", s>>
        /\ obs.user_err = "ValueError"
        /\ Conflict(s)
        /\ hv.ss[s.n] = {ssp.ss[s.n]}

\* C18: when the SingleStep event of a CPU has been delivered to the
\* coordinator, the hypervisor feature is disabled for the CPU and the CPU's
\* armed method is None.
C18_StepDisarms ==
    (obs.delivered # <<>> /\ obs.delivered[1] = ss_cb_ss) =>
        /\ hv.ss[obs.delivered[2].cpu_num] = {}
        /\ ssp.ss[obs.delivered[2].cpu_num] = "None"

\* the calls that count for CPU c all named c, or the calls made all omitted
\* the cpu argument, and there are as many disables as enables
Balanced(c) ==
    /\ \/ obs.lbr[c].args = "cpu"
       \/ \A d \in Cpus : obs.lbr[d].args = "all"
    /\ obs.lbr[c].enables >= 1
    /\ obs.lbr[c].enables = obs.lbr[c].disables

\* C19 as stated: n lbr_enable and n lbr_disable calls for a CPU, in any
\* order that keeps the counter from going below zero, reach the hypervisor
\* as exactly one enable and exactly one disable and leave the feature
\* disabled.
C19_OneEnableOneDisable ==
    \A c \in Cpus :
        Balanced(c) => /\ obs.lbr[c].hv_enables = 1
                       /\ obs.lbr[c].hv_disables = 1
                       /\ ~hv.lbr[c]
\* C19 amended: they reach the hypervisor as one enable and one disable for
\* every time a disable evened out the enables, so exactly one of each when
\* that happens only at the last call, and leave the feature disabled.
C19_EnableDisablePerReturn ==
    \A c \in Cpus :
        Balanced(c) => /\ obs.lbr[c].hv_enables = obs.lbr[c].returns
                       /\ obs.lbr[c].hv_disables = obs.lbr[c].returns
                       /\ ~hv.lbr[c]
\* two enables followed by two disables for one CPU
C19_NestedCallsBalanced ==
    \E c \in Cpus : /\ Balanced(c) /\ obs.lbr[c].args = "cpu"
                    /\ obs.lbr[c].enables = 2 /\ obs.lbr[c].returns = 1

\* the requests outstanding for a dtb, and the directions they ask for
Outstanding(d) == {i \in DOMAIN tsp.requests : tsp.requests[i].dtb = d}
HasIncoming(d) == \E i \in Outstanding(d) : tsp.requests[i].incoming
HasOutgoing(d) == \E i \in Outstanding(d) : tsp.requests[i].outgoing
\* the outstanding requests ask for every direction r asks for
CoveredBy(r) ==
    /\ r.incoming => HasIncoming(r.dtb)
    /\ r.outgoing => HasOutgoing(r.dtb)
UnionCall(r) ==
    <<TRUE, r.dtb, r.incoming \/ HasIncoming(r.dtb), r.outgoing \/ HasOutgoing(r.dtb)>>

\* C20 as stated: a request issues the enable call exactly when the
\* outstanding requests of its dtb do not cover every direction it asks
\* for, with the union of the directions; a covered request issues no call.
C20_EnableWhenNotCovered ==
    [][obs'.ts_req # <<>> =>
          obs'.ts_call = IF CoveredBy(obs'.ts_req) THEN <<>>
                         ELSE UnionCall(obs'.ts_req)]_vars
\* C20 amended: the call is also issued when no request is outstanding for
\* the dtb, whatever the directions of the new request.
C20_EnableWhenFirstOrNotCovered ==
    [][obs'.ts_req # <<>> =>
          obs'.ts_call = IF Outstanding(obs'.ts_req.dtb) # {} /\ CoveredBy(obs'.ts_req)
                         THEN <<>>
                         ELSE UnionCall(obs'.ts_req)]_vars
\* the second of the requests (D, incoming only), (D, outgoing only) has
\* issued the enable call with both directions
C20_SecondFacetAdded ==
    \E d \in Dtbs :
        /\ obs.ts_req = TsRequestParams(d, FALSE, TRUE)
        /\ obs.ts_call = <<TRUE, d, TRUE, TRUE>>
        /\ \E i \in Outstanding(d) : tsp.requests[i] = TsRequestParams(d, TRUE, FALSE)

\* the directions the hypervisor traps for a dtb after the last call for it
TsEnabled(d) == hv.ts[d] # <<>> /\ hv.ts[d][1]
TsIncoming(d) == TsEnabled(d) /\ hv.ts[d][2]
TsOutgoing(d) == TsEnabled(d) /\ hv.ts[d][3]

\* C21: for every dtb the trap is enabled exactly when a request for the
\* dtb is outstanding, and the directions set by the last call for the dtb
\* are the union of the directions of the outstanding requests.
C21_TrapFollowsOutstanding ==
    \A d \in Dtbs :
        /\ TsEnabled(d) <=> Outstanding(d) # {}
        /\ TsIncoming(d) <=> HasIncoming(d)
        /\ TsOutgoing(d) <=> HasOutgoing(d)
\* a cancel has narrowed the trap of a dtb: the request that asked for the
\* outgoing direction is gone, one that asks for incoming only remains
C21_CancelNarrowed ==
    \E d \in Dtbs :
        /\ obs.ts_call = <<TRUE, d, TRUE, FALSE>>
        /\ obs.ts_req = <<>>
        /\ Outstanding(d) # {}
        /\ hv.ts[d] = <<TRUE, TRUE, FALSE>>

\* C22: whenever the run loop is at the hypervisor wait, the per-CPU state
\* cache and the LBR cache of the VM facade are empty, and no access to
\* cpu(n) or lbr(n) returns state that was read in an earlier stop.
C22_CachesEmptyAtResume ==
    /\ Resumed => vm.cpus = EmptyMap /\ vm.lbrs = EmptyMap
    /\ ~obs.stale

\* the events put since the VM was resumed and not yet taken for dispatch
Undispatched == SubSeq(obs.puts, obs.ndisp + 1, Len(obs.puts))

\* C23: put_event appends the event to the back of the queue and invokes no
\* callback; the queue holds the events put and not yet dispatched, in the
\* order of the calls, so an event put during dispatch is dispatched after
\* those already queued; and the run loop goes on from the dispatch to the
\* continue hooks and the wait only with an empty queue.
C23_PutAppendsAndDrains ==
    /\ [](em.event_queue = Undispatched)
    /\ [][pc = "pop" /\ pc' = "hooks" => em.event_queue = <<>> /\ em'.event_queue = <<>>]_vars
    /\ [][obs'.api # <<>> /\ obs'.api[1] = "put_event" =>
             /\ Len(em'.event_queue) = Len(em.event_queue) + 1
             /\ SubSeq(em'.event_queue, 1, Len(em.event_queue)) = em.event_queue
             /\ obs'.seen = obs.seen \cup (IF obs'.delivered = <<>> THEN {}
                                           ELSE {obs'.delivered[1]})
             /\ em'.event_callbacks = em.event_callbacks
             /\ cb' = cb]_vars
\* an event a callback put while two events of the hypervisor were queued
\* is in dispatch, as the third of the stop
C23_PutDispatchedLast ==
    /\ pc = "dispatch"
    /\ cur.kind = KUser
    /\ obs.ndisp = 3
    /\ obs.puts[1].kind # KUser
    /\ obs.puts[2].kind # KUser
    /\ em.event_queue = <<>>

\* the step into the wait called every continue hook once, in the order of
\* add_continue_hook, and dispatched nothing
HooksBeforeWait ==
    pc = "wait" => /\ obs.hooks = em.continue_hooks
                   /\ obs.delivered = <<>>
                   /\ obs.skipped = <<>>
\* the continue hooks were called before: run_loop is past its first round
LaterRound == obs.hooks # <<>>

\* C24 as stated: the run loop is at the hypervisor wait only after it has
\* invoked every continue hook once, in the order of add_continue_hook; the
\* hooks are called only with an empty queue, and nothing is dispatched
\* between the hooks and the wait.
C24_HooksOnlyWhenQueueEmpty ==
    /\ HooksBeforeWait
    /\ pc = "hooks" => em.event_queue = <<>>
\* C24 amended: the queue is empty when the hooks are called in every round
\* but the first, which run_loop starts with whatever was put before.
C24_HooksWhenQueueEmptyAfterFirst ==
    /\ HooksBeforeWait
    /\ (pc = "hooks" /\ LaterRound) => em.event_queue = <<>>
\* the VM is resumed after a stop: both hooks ran, the VM facade's first
\* and the SLP coordinator's second
C24_HooksRanAfterStop ==
    /\ pc = "wait"
    /\ hv.stops >= 1
    /\ obs.hooks = <<"VirtualMachine._cont_hook", "SLPPlugin._cont_hook">>

\* the subscriptions that were active when the event in dispatch was taken
\* from the queue, were cancelled since, and were not invoked for it
CancelledUnreached ==
    {s \in obs.was : ~cb[s].active /\ s \notin obs.seen /\ InBucket(s) = FALSE}

\* C25 as stated: a callback is invoked only while its subscription is
\* active: once cancel_event(s) has returned, s is invoked for no event,
\* the one in dispatch included, until request_event registers it again.
C25_CancelledNotInvoked ==
    (obs.delivered # <<>> /\ obs.delivered[1] \in UserSubs) => obs.delivered[3]
\* C25 amended: the same, for the subscriptions that request_event was never
\* applied to while they were active.
C25_CancelledOnceNotInvoked ==
    (obs.delivered # <<>> /\ obs.delivered[1] \in UserSubs \ obs.rereq) => obs.delivered[3]
\* the dispatch of an event has passed the wildcard bucket, and a wildcard
\* subscription that another callback cancelled before its turn was not
\* invoked
C25_CancelledBeforeItsTurn ==
    /\ pc = "dispatch"
    /\ key # "*"
    /\ CancelledUnreached \cap (UserAllSubs \ obs.rereq) # {}

\* the producer table binds an event class listed by the plugin
Taken(plugin) ==
    \E i \in 1 .. Len(plugin.produces) : plugin.produces[i] \in DOMAIN em.event_plugins

\* C26: register fails with EventPluginExists when an event class the
\* plugin lists has an entry in the table, the three built-in events
\* included, and no call of register changes or removes an entry the
\* table holds: an event class keeps the one producer it has.
C26_RegisterKeepsProducer ==
    [][(obs'.api # <<>> /\ obs'.api[1] = "register") =>
          /\ Taken(obs'.api[2]) => err' = "EventPluginExists"
          /\ \A k \in DOMAIN em.event_plugins :
                /\ k \in DOMAIN em'.event_plugins
                /\ em'.event_plugins[k] = em.event_plugins[k]]_vars
\* a plugin of the user that lists the breakpoint event was refused, the
\* breakpoint plugin is still the producer
C26_SecondProducerRefused ==
    /\ obs.api = <<"register", EventPlugin("UserPlugin2", <<KUser, KBP>>)>>
    /\ err = "EventPluginExists"
    /\ em.event_plugins[KBP] = "BreakpointPlugin"

\* the name a call of the service manager is about, and whether it is bound
CalledName(a) == IF a[3] = "None" THEN a[2].cls ELSE a[3]
Bound(name) == name \in DOMAIN svc.service_registry

\* C27: register of a bound name fails with ServiceRegisteredError, get
\* and unregister_by_name of an unbound name fail with KeyError, and these
\* calls leave the registry as it is; a bound name stays bound to the same
\* object through every call that is not an unregister.
C27_RegistryKeepsFirstBinding ==
    [][obs'.api # <<>> =>
          /\ (obs'.api[1] = "register" /\ Bound(CalledName(obs'.api))) =>
                 err' = "ServiceRegisteredError" /\ svc' = svc
          /\ (obs'.api[1] \in {"get", "unregister_by_name"} /\ ~Bound(obs'.api[3])) =>
                 err' = "KeyError" /\ svc' = svc
          /\ obs'.api[1] \in {"register", "get"} =>
                 \A n \in DOMAIN svc.service_registry :
                    /\ n \in DOMAIN svc'.service_registry
                    /\ svc'.service_registry[n] = svc.service_registry[n]]_vars
\* a second VM facade was refused under the name of the first, which is
\* still the one bound
C27_SecondServiceRefused ==
    /\ obs.api = <<"register", Obj("VirtualMachineX86_64", "VirtualMachine", 2),
                   "VirtualMachine">>
    /\ err = "ServiceRegisteredError"
    /\ svc.service_registry["VirtualMachine"] = VirtualMachine

\* C28: in the dispatch of an event the callbacks are invoked in the order
\* of their registrations, the wildcard ones before the kind-specific ones:
\* no invocation is of a registration that comes before the one invoked
\* last, and no wildcard callback is invoked after a kind-specific one.
C28_InvokedInRegistrationOrder ==
    /\ ~obs.disorder
    /\ obs.delivered # <<>> =>
          /\ obs.last[1] = event_key(obs.delivered[1])
          /\ \A s \in obs.seen : event_key(s) = "*" \/ obs.last[1] # "*"
\* a kind-specific callback registered second in its bucket is invoked
\* after a wildcard callback got the same event
C28_KindAfterWildcard ==
    /\ obs.delivered # <<>>
    /\ obs.delivered[1] \in UserSubs
    /\ obs.last[1] = KSS
    /\ obs.last[2] >= 2
    /\ \E s \in obs.seen : event_key(s) = "*"

\* C29: cancel_event of a subscription that is in no bucket raises KeyError
\* or ValueError, calls no producer, and leaves the buckets, the
\* subscription's active flag and its request id as they were.
C29_CancelUnregisteredFails ==
    [][\A s \in UserSubs :
          (obs'.api = <<"cancel_event", s>> /\ ~InBucket(s)) =>
              /\ obs'.user_err \in {"KeyError", "ValueError"}
              /\ obs'.canceled = obs.canceled
              /\ <<slp, ssp, bpp, tsp, hv>>' = <<slp, ssp, bpp, tsp, hv>>
              /\ em'.event_callbacks = em.event_callbacks
              /\ cb' = cb]_vars
\* cancel_event failed for a subscription that had been requested from its
\* producer and cancelled before
C29_SecondCancelFailed ==
    \E s \in UserSubs :
        /\ obs.api = <<"cancel_event", s>>
        /\ obs.user_err \in {"KeyError", "ValueError"}
        /\ ~InBucket(s)
        /\ \E e \in obs.requested : e[1] = s
        /\ \E e \in obs.canceled : e[1] = event_key(s)

\* the buffered violations on page g, and the first of them
BufferedOn(g) == {i \in 1 .. Len(slp.slp_events) : ShiftRight(slp.slp_events[i].gpa) = g}
FirstOn(g) == slp.slp_events[CHOOSE i \in BufferedOn(g) : \A j \in BufferedOn(g) : i <= j]
\* C30: when the continue hook runs with violations buffered for a page, none
\* of them with the RWX mark, a page without a request in the per-page map
\* is requested readable and writable if the first fault was a read or a
\* write and executable only otherwise; for a page that has a request the
\* hypervisor gets that request if it is uncommitted, and nothing if not.
C30_RecoveryPermission ==
    [][(pc = "hooks" /\ pc' = "wait") =>
          \A g \in Gfns :
             (BufferedOn(g) # {} /\ \A i \in BufferedOn(g) : ~slp.slp_events[i].rwx) =>
                 IF g \notin DOMAIN slp.perm_requests
                 THEN LET perms == IF FirstOn(g).r \/ FirstOn(g).w
                                   THEN <<TRUE, TRUE, FALSE>>
                                   ELSE <<FALSE, FALSE, TRUE>>
                      IN /\ hv'.slp_sent[g] = Append(hv.slp_sent[g], perms)
                         /\ hv'.slp_perm[g] = perms
                 ELSE LET held == slp.perm_requests[g]
                      IN IF held[4]
                         THEN hv'.slp_sent[g] = hv.slp_sent[g]
                              /\ hv'.slp_perm[g] = hv.slp_perm[g]
                         ELSE hv'.slp_sent[g] =
                                  Append(hv.slp_sent[g], <<held[1], held[2], held[3]>>)]_vars

\* the buffered violations with the RWX mark that CPU c raised
RwxOn(c) ==
    {i \in 1 .. Len(slp.slp_events) :
        slp.slp_events[i].rwx /\ slp.slp_events[i].cpu_num = c}
\* C31: a CPU has one RWX-pending slot. When the continue hook meets an rwx
\* violation of a CPU whose slot is occupied it raises RuntimeError and the
\* slot keeps its entry; when the hook completes, every slot that changed
\* was empty and now names the page of a violation of its own CPU, and the
\* slots of CPUs without rwx violation are as they were.
C31_OnePendingPerCpu ==
    [][pc = "hooks" =>
          /\ (\E c \in Cpus : RwxOn(c) # {} /\ slp.rwx_perm_request[c] # <<>>) =>
                 /\ err' = "RuntimeError"
                 /\ \A c \in Cpus : slp.rwx_perm_request[c] # <<>> =>
                        slp'.rwx_perm_request[c] = slp.rwx_perm_request[c]
          /\ err' = "none" =>
                 \A c \in Cpus :
                    IF RwxOn(c) = {}
                    THEN slp'.rwx_perm_request[c] = slp.rwx_perm_request[c]
                    ELSE /\ slp.rwx_perm_request[c] = <<>>
                         /\ \E i \in RwxOn(c) :
                               slp'.rwx_perm_request[c][1] = ShiftRight(slp.slp_events[i].gpa)]_vars
\* the continue hook refused a second rwx violation of a CPU whose slot
\* was occupied since the stop before
C31_SecondRwxRefused ==
    /\ pc = "crashed"
    /\ err = "RuntimeError"
    /\ hv.stops = 2
    /\ \E c \in Cpus : slp.rwx_perm_request[c] # <<>> /\ RwxOn(c) # {}

\* the breakpoint records whose cancel_event was called in the last step
CancelledNow(o1, o2) == {e[2] : e \in {f \in o2.canceled \ o1.canceled : f[1] = KBP}}
\* C32: cancel_event of the breakpoint plugin, for a record that is Armed or
\* Hidden, returns without error; afterwards the record is gone, its debug
\* breakpoint is not set (is_set false, and uninstalled at the hypervisor if
\* the record was Armed) and neither of its SLP subscriptions is active or in
\* a bucket.
C32_CancelRemovesRecord ==
    [][\A id \in CancelledNow(obs, obs') \cap Records :
          /\ obs'.user_err = "none"
          /\ err' = "none"
          /\ \A i \in 1 .. Len(bpp'.requests) : bpp'.requests[i] # id
          /\ ~bpp'.obj[id].is_set
          /\ Armed(id) => ~hv'.debug_bp[bpp.obj[id].gpa]
          /\ ~cb'[slp_rw_cb(id)].active
          /\ ~cb'[slp_x_cb(id)].active
          /\ \A k \in DOMAIN em'.event_callbacks :
                \A i \in 1 .. Len(em'.event_callbacks[k]) :
                    em'.event_callbacks[k][i] \notin {slp_rw_cb(id), slp_x_cb(id)}]_vars

\* a user plugin's cancel_event returned for a breakpoint whose record was
\* Hidden (its page readable and writable, not executable): no record is
\* left and no debug breakpoint is installed
C32_HiddenRecordCancelled ==
    \E s \in UserBpSubs :
        /\ Returned("cancel_event", s)
        /\ hv.stops >= 1
        /\ \E e \in obs.canceled : e[1] = KBP /\ bpp.obj[e[2]].gpa = s.p
        /\ Records = {}
        /\ hv.slp_perm[ShiftRight(s.p)] = <<TRUE, TRUE, FALSE>>
        /\ \A g \in Gpas : ~hv.debug_bp[g]

\* page g has a request of this stop that makes it writable, so that an
\* execute request for it violates the W/X rule
WriteRequested(g) == g \in DOMAIN slp.perm_requests /\ slp.perm_requests[g][2]
\* C33: a breakpoint requested for a page with a write request of the same
\* stop is set all the same: request_event returns, the subscription holds
\* the id of a record that is Armed, the record's RW subscription is active
\* and the debug breakpoint is installed.
C33_FailedUpdateNotFatal ==
    [][\A s \in UserBpSubs :
          (obs'.api = <<"request_event", s>> /\ WriteRequested(ShiftRight(s.p))) =>
              /\ obs'.user_err = "none"
              /\ cb'[s].active
              /\ cb'[s].request_id \in {bpp'.requests[i] : i \in 1 .. Len(bpp'.requests)}
              /\ bpp'.obj[cb'[s].request_id].is_set
              /\ cb'[slp_rw_cb(cb'[s].request_id)].active
              /\ hv'.debug_bp[s.p]]_vars

\* C34: cancel_event of a single-step subscription leaves the hypervisor and
\* the coordinator (armed methods, saved instruction pointers, id counter)
\* as they were, so the step still traps; and when a SingleStep event has
\* been delivered to the coordinator, the feature is disabled for its CPU.
C34_CancelLeavesStepArmed ==
    /\ [][\A s \in UserSsSubs :
             (obs'.api = <<"cancel_event", s>> /\ InBucket(s)) =>
                 /\ obs'.user_err = "none"
                 /\ hv' = hv
                 /\ ssp' = ssp]_vars
    /\ []((obs.delivered # <<>> /\ obs.delivered[1] = ss_cb_ss) =>
             err = "none" /\ hv.ss[obs.delivered[2].cpu_num] = {})
\* the SingleStep event of a step whose only subscription was cancelled in
\* the constructor that requested it is delivered to the coordinator
C34_CancelledStepFired ==
    /\ obs.delivered # <<>>
    /\ obs.delivered[1] = ss_cb_ss
    /\ hv.stops = 1
    /\ \A s \in UserSsSubs : ~cb[s].active
    /\ \E e \in obs.canceled : e[1] = KSS
    /\ hv.ss[obs.delivered[2].cpu_num] = {}

\* the user subscriptions that were active when the event in dispatch was
\* taken from the queue and still are, accept the event, and were not
\* invoked for it
MissedAny ==
    {s \in obs.was : cb[s].active /\ InBucket(s) /\ Accepts(Cur, s, cur) /\ s \notin obs.seen}
\* C35: when the dispatch of an event ends, every subscription that was
\* active throughout and accepts the event has been invoked for it, also
\* when callbacks cancelled subscriptions during the dispatch.
C35_CancelInDispatchSkipsNone ==
    (pc = "dispatch" /\ key # "*" /\ idx > Len(Bucket)) => MissedAny = {}

\* C36: a callback invoked for the event in dispatch belongs to a
\* subscription that was registered when the event was taken from the
\* queue: one registered by a callback during the dispatch is not invoked
\* for that event.
C36_RegisteredInDispatchWaits ==
    (pc = "dispatch" /\ obs.delivered # <<>> /\ obs.delivered[1] \in UserSubs) =>
        obs.delivered[1] \in obs.was

\* C37: between callbacks, every record the breakpoint plugin holds has
\* exactly one of its two SLP subscriptions active and registered, the RW
\* one if and only if is_set is true.
C37_OneSubscriptionPerRecord ==
    Running => \A id \in Records :
                  /\ cb[slp_rw_cb(id)].active # cb[slp_x_cb(id)].active
                  /\ cb[slp_rw_cb(id)].active <=> Armed(id)
                  /\ InBucket(slp_rw_cb(id)) <=> Armed(id)
                  /\ InBucket(slp_x_cb(id)) <=> Hidden(id)

\* C38: with calls for one CPU and calls for all CPUs mixed, the
\* hypervisor LBR feature is enabled on a CPU if and only if that CPU's
\* counter is greater than zero.
C38_LbrFollowsCounters ==
    \A c \in Cpus : hv.lbr[c] <=> vm.lbr_enabled[c] > 0

\* C39: after a load of a plugin that failed with EventPluginExists, none
\* of the event classes the plugin lists is bound to it in the producer
\* table, its name is not bound in the service registry, and it is not in
\* the loaded-plugin map.
C39_FailedLoadLeavesNothing ==
    (obs.api # <<>> /\ obs.api[1] = "load_plugin" /\ err = "EventPluginExists") =>
        LET plugin == obs.api[2] IN
        /\ \A i \in 1 .. Len(plugin.produces) :
               plugin.produces[i] \in DOMAIN em.event_plugins =>
                   em.event_plugins[plugin.produces[i]] # plugin.name
        /\ plugin.name \notin DOMAIN svc.service_registry
        /\ plugin.name \notin DOMAIN pm.loaded_plugins

\* C40: the single-step coordinator's callback, invoked for a SingleStep
\* event on a CPU for which it holds no method, raises nothing, and the
\* dispatch goes on.
C40_StrayStepHandled ==
    (/\ obs.delivered # <<>>
     /\ obs.delivered[1] = ss_cb_ss
     /\ ssp.ss[obs.delivered[2].cpu_num] = "None") =>
        err = "none" /\ pc = "dispatch"

====
